---- MODULE Spec2Model ----
(***************************************************************************)
(* State-machine model of the photoshoot generator's orchestration code:   *)
(* the App component (state, handleGenerate, handleRegenerate,             *)
(* handleVideoAction, handleViewHistoryItem, the history effect), the      *)
(* generatePhotos loop and generateVideoFromImage of geminiService.ts and  *)
(* the useHistory store.  Every action is one run of the code between two  *)
(* awaits: an event handler up to its first await, or the continuation of  *)
(* a resolved/rejected promise.  The updates of an event handler are       *)
(* rendered, and the history effect run, before the handler's task ends;   *)
(* the updates of a continuation are rendered by a later task (RenderTask),*)
(* before which further continuations may run; a user event is dispatched  *)
(* only after that render.  Sequences are 1-based: position i of a list    *)
(* here is index i-1 of the array in the code.                             *)
(***************************************************************************)
EXTENDS Integers, Sequences, FiniteSets, Bags, TLC

\* ---------------------------------------------------------------- bounds
\* longest pose list the planner returns
MaxPoses == 2
\* number of user requests explored (submits, regenerate clicks, video
\* clicks, history views)
MaxUserActions == 3

\* ------------------------------------------------------------ value sets
\* undefined, for an optional string field
None == "none"
\* null, for FormState | null
NullForm == [null |-> TRUE]
\* null, for the error banner; a message is a tuple <<prefix, detail>>
NoError == <<>>
\* undefined, for videoSrc; a video is the tuple <<"video", photo src>>
NoVideo == <<>>
\* no item id
NoId == <<>>
\* values of the style <select> the runs use (two of the nine options)
Styles == {"e-commerce", "cinematic"}
\* pose texts the planner returns, in order
PoseNames == <<"pose-a", "pose-b", "pose-c", "pose-d">>
\* a prompt typed into the regenerate panel
EditedPrompt == "edited"
\* the data URL the image gateway returns for a request: the image made for
\* that pose and style
ImageFor(pose, style) == <<"image", pose, style>>
\* the src of an item that has no image yet
NoSrc == <<>>
\* messages of the errors generateImage throws
Reasons == {"Request was blocked"}
\* message of the error generatePoses throws
PlanFailure == "Failed to generate poses"
\* message thrown by handleGenerate on an empty pose list
NoPoses == "The AI failed to generate any poses. Try adjusting the description."
\* values of the delay <input> the runs use
Delays == {0, 1}

VARIABLES
    formState,          \* useState<FormState>
    images,             \* useState<ImageResult[]>
    isLoading,          \* useState<boolean>
    error,              \* useState<string | null>
    lastUsedFormState,  \* useState<FormState | null>
    prevIsLoading,      \* useRef(false)
    history,            \* useHistory: HistoryEntry[], newest first
    batch,              \* the running handleGenerate/generatePhotos task
    regenCalls,         \* bag of regeneratePhoto calls awaiting the gateway
    videoCalls,         \* bag of generateVideoFromImage calls in progress
    nBatch,             \* start-batch submissions so far (Date.now() of ids)
    nAppend,            \* addToHistory invocations so far
    nUser,              \* user requests so far
    ev,                 \* the handler or continuation that ran last
    apiKey,             \* getApiKey() returns a key (stored, or the build's)
    isApiKeyModalOpen,  \* useState(false)
    isDescriptionLoading,   \* useState(false)
    descCalls,          \* bag of generateDescription calls awaited
    storedHistory,      \* localStorage's item photoshootGeneratorHistory
    reloading,          \* location.reload() was called, the page not yet
                        \* replaced
    inputValue,         \* the values the DOM nodes of the number inputs hold
    submittedForms      \* the form of every start-batch submission so far

vars == <<formState, images, isLoading, error, lastUsedFormState, prevIsLoading,
          history, batch, regenCalls, videoCalls, nBatch, nAppend, nUser, ev,
          apiKey, isApiKeyModalOpen, isDescriptionLoading, descCalls,
          storedHistory, reloading, inputValue, submittedForms>>

\* ------------------------------------------------------------ the API key
\* message of the error getAiClient throws when there is no key
KeyMissing ==
    "API key not found. Please provide your key to use the application."

\* err.message.includes('API key not found'), over the messages of the runs
IncludesKeyNotFoundNever(message) == FALSE
IncludesKeyNotFound(message) == message = KeyMissing

\* the catch blocks' `if (...) { setIsApiKeyModalOpen(true); }`
ModalAfter(message) ==
    IF IncludesKeyNotFound(message) THEN TRUE ELSE isApiKeyModalOpen

\* ------------------------------------------------------------- App state
\* the values of the fields numberOfImages and delay: a number n, NaN (what
\* parseInt makes of a text without digits) or null (what JSON.stringify
\* makes of NaN); NaN and null are no numbers and equal none
Num(n) == [n |-> n]
NaN == [nan |-> TRUE]
Null == [null |-> TRUE]
IsNumber(v) == "n" \in DOMAIN v

\* `v > 0` as JavaScript evaluates it: false for NaN, and for null, which
\* the comparison converts to 0
Positive(v) == IsNumber(v) /\ v.n > 0

\* the FormState the component is constructed with, the count and delay
\* fields as the user has set them before submitting
DefaultForm(n, d) ==
    [productImage |-> None, modelImage |-> None, productDescription |-> "",
     numberOfImages |-> Num(n), delay |-> Num(d), style |-> "e-commerce",
     aspectRatio |-> "9:16"]

\* `${Date.now()}-${index}` of the item created for pose index i of batch b
ItemId(b, i) == <<b, i>>

\* the ImageResult created for every planned pose
InitialImage(b, i, pose, fs) ==
    [id |-> ItemId(b, i), src |-> NoSrc, prompt |-> pose, style |-> fs.style,
     aspectRatio |-> fs.aspectRatio, status |-> "loading", error |-> None,
     videoStatus |-> "idle", videoSrc |-> NoVideo, videoError |-> None]

\* poseTasks.map((pose, index) => ({...}))
InitialImagesReversed(b, poseTasks, fs) ==
    [i \in 1..Len(poseTasks) |->
        InitialImage(b, i, poseTasks[Len(poseTasks) + 1 - i], fs)]
InitialImages(b, poseTasks, fs) ==
    [i \in 1..Len(poseTasks) |-> InitialImage(b, i, poseTasks[i], fs)]

\* the pose lists the planner may answer with: any length up to MaxPoses
PoseLists == {[i \in 1..k |-> PoseNames[i]] : k \in 0..MaxPoses}

\* a HistoryEntry kept in localStorage by an earlier session, made from the
\* product photo uploaded then
PriorEntry ==
    [id |-> 0,
     formState |-> [DefaultForm(1, 0) EXCEPT !.productImage = "earlier product"],
     images |-> <<[InitialImage(0, 1, PoseNames[1], DefaultForm(1, 0))
                    EXCEPT !.src = ImageFor(PoseNames[1], "e-commerce"),
                           !.status = "success"]>>]

\* the record of the last handler or continuation that ran: its name, the
\* item id and index it was given, whether the awaited call resolved, its
\* further arguments, and the videoStatus the item had when it ran
Event(op, id, index, ok, a, b, was) ==
    [op |-> op, id |-> id, index |-> index, ok |-> ok, a |-> a, b |-> b,
     was |-> was]

\* the task state of handleGenerate before any submission; `text` is the
\* prompt constructPrompt returned for the last generateImage call, `unsent`
\* the awaited generateImage calls in which getAiClient threw
NoBatch ==
    [pc |-> "idle", formState |-> NullForm, poseTasks |-> <<>>, index |-> 0,
     calls |-> {}, started |-> <<>>, done |-> {}, slept |-> <<>>,
     appendBase |-> 0, text |-> "", unsent |-> {}]

\* ------------------------------------------------------- useHistory store
\* newHistory.sort((a, b) => b.id - a.id), as a stable insertion sort: an
\* entry is put before the entries that followed it and have no larger id
RECURSIVE InsertDesc(_, _)
InsertDesc(e, s) ==
    IF s = <<>> THEN <<e>>
    ELSE IF s[1].id <= e.id THEN <<e>> \o s
    ELSE <<s[1]>> \o InsertDesc(e, Tail(s))

RECURSIVE SortDesc(_)
SortDesc(s) ==
    IF s = <<>> THEN <<>>
    ELSE LET rest == SortDesc(Tail(s))
             e == s[1]
         IN  IF rest = <<>> \/ rest[1].id <= e.id THEN <<e>> \o rest
             ELSE <<rest[1]>> \o InsertDesc(e, Tail(rest))

\* addToHistory: [newEntry, ...prevHistory], then saveHistory sorts it
AddToHistory(h, fs, imgs, now) ==
    SortDesc(<<[id |-> now, formState |-> fs, images |-> imgs]>> \o h)

\* removeFromHistory: prevHistory.filter(entry => entry.id !== id), then
\* saveHistory sorts it
RemoveEntry(h, id) == SortDesc(SelectSeq(h, LAMBDA e : e.id # id))

\* JSON.stringify(sortedHistory), the text as the value JSON.parse reads from
\* it: the entries with their fields, a count or delay of NaN written as null
JsonStringify(h) ==
    [json |-> [i \in 1..Len(h) |->
                 [h[i] EXCEPT !.formState.numberOfImages =
                                  IF @ = NaN THEN Null ELSE @,
                              !.formState.delay =
                                  IF @ = NaN THEN Null ELSE @]]]

\* the mount effect of useHistory: JSON.parse of the stored item, the empty
\* list of useState without an item (getItem returns null)
LoadHistory(item) == IF item = Null THEN <<>> ELSE item.json

\* the guard of the history effect
EffectFiresMissingRef(prev, loading, lufs) == ~loading /\ lufs # NullForm
EffectFires(prev, loading, lufs) == prev /\ ~loading /\ lufs # NullForm

\* The value a number input holds after a render with value={v}: the number,
\* the empty field for NaN, and for null the value it held before (React
\* leaves the node of an input without a value as it is)
DomValue(v, held) == IF v = Null THEN held ELSE v

\* A render and its history effect: the effect reads the rendered isLoading,
\* lastUsedFormState and images, appends when a job just finished, and stores
\* isLoading in the ref.  saveHistory's localStorage.setItem stores the
\* sorted list (`saved`) or throws, the item staying as it was; the list is
\* the state's either way.
Render(saved) ==
    /\ prevIsLoading' = isLoading'
    /\ inputValue' =
          [numberOfImages |-> DomValue(formState'.numberOfImages,
                                       inputValue.numberOfImages),
           delay |-> DomValue(formState'.delay, inputValue.delay)]
    /\ IF EffectFires(prevIsLoading, isLoading', lastUsedFormState')
       THEN /\ history' = AddToHistory(history, lastUsedFormState', images',
                                       nAppend + 1)
            /\ nAppend' = nAppend + 1
            /\ storedHistory' = IF saved THEN JsonStringify(history')
                                ELSE storedHistory
       ELSE UNCHANGED <<history, nAppend, storedHistory>>

\* the updates queued by a continuation are rendered by a later task; until
\* then the ref and the history are as the last render left them
Deferred ==
    UNCHANGED <<prevIsLoading, history, nAppend, storedHistory, inputValue>>

\* no render is outstanding whose effect would read another isLoading than
\* the ref holds (every other outstanding render's effect changes nothing)
Rendered == prevIsLoading = isLoading

\* -------------------------------------------------- setImages updaters
\* onSuccess: prevImages.map((img, i) => i === index ? {...} : img)
OnSuccess(imgs, index, imageUrl) ==
    [i \in 1..Len(imgs) |->
        IF i = index THEN [imgs[i] EXCEPT !.src = imageUrl, !.status = "success"]
        ELSE imgs[i]]

\* onError: prevImages.map((img, i) => i === index ? {...} : img)
OnErrorAll(imgs, index, errorMessage) ==
    [i \in 1..Len(imgs) |->
        [imgs[i] EXCEPT !.status = "error", !.error = errorMessage]]
OnError(imgs, index, errorMessage) ==
    [i \in 1..Len(imgs) |->
        IF i = index
        THEN [imgs[i] EXCEPT !.status = "error", !.error = errorMessage]
        ELSE imgs[i]]

\* the catch block's updater: every present item becomes 'Generation failed'
FailAll(imgs) ==
    [i \in 1..Len(imgs) |->
        [imgs[i] EXCEPT !.status = "error", !.error = "Generation failed"]]

\* ------------------------------------------------------ constructPrompt
\* the nine values of the style <select>
KnownStyles ==
    {"e-commerce", "studio-bokeh", "cinematic", "high-fashion", "lifestyle",
     "vintage", "minimalist", "dramatic", "monochrome"}

\* the text the switch appends for a style: a fixed clause per case, the
\* default clause built around the style's name
GenericStyleClause(style) ==
    " The overall style should be " \o style
    \o ". The background should be a clean studio setting with"
    \o " professional lighting. High-end commercial photography, sharp focus."
StyleClause(style) ==
    CASE style = "e-commerce" ->
            " The overall style should be photorealistic, clean, and"
            \o " professional. The background must be a completely plain,"
            \o " solid white background (#FFFFFF) suitable for an"
            \o " e-commerce product listing. The lighting should be"
            \o " bright and even, minimizing shadows. High-end commercial"
            \o " photography, sharp focus on the product and model."
      [] style = "studio-bokeh" ->
            " The style is photorealistic. The background should be a"
            \o " clean studio setting with a soft, out-of-focus bokeh"
            \o " effect, creating a sense of depth. The lighting should"
            \o " be professional and flattering."
      [] style = "cinematic" ->
            " The style should be cinematic, with dramatic,"
            \o " high-contrast lighting (chiaroscuro). The background"
            \o " should be dark and moody, suggesting a scene from a film."
      [] style = "high-fashion" ->
            " The style should be high-fashion and avant-garde. The"
            \o " background must be an abstract, geometric pattern with"
            \o " bold colors and shapes."
      [] style = "lifestyle" ->
            " Create a lifestyle scene with the model in a natural,"
            \o " candid pose. The setting should be outdoors with"
            \o " beautiful, warm, natural light (golden hour)."
      [] style = "vintage" ->
            " The style should be vintage, reminiscent of old film"
            \o " photography. Apply a sepia tone, add subtle film grain,"
            \o " and use soft, nostalgic lighting."
      [] style = "minimalist" ->
            " The style must be minimalist and clean. The background"
            \o " should be a simple, neutral-colored studio setting with"
            \o " even, soft lighting."
      [] style = "dramatic" ->
            " The style should be dramatic and theatrical. Use a"
            \o " single, hard light source to create deep shadows and a"
            \o " strong focal point. The background should be dark or"
            \o " black."
      [] style = "monochrome" ->
            " The image must be in black and white (monochrome). The"
            \o " background should be a simple studio setting, focusing"
            \o " on texture, form, and light."
      [] OTHER -> GenericStyleClause(style)

\* the clause on the reference images: `if (modelImage && productImage) ...`
ReferenceClause(modelImage, productImage) ==
    IF modelImage # None /\ productImage # None
    THEN " Featuring the attached model posing with the attached product."
    ELSE IF modelImage # None
    THEN " Featuring the attached model in a commercial setting."
    ELSE IF productImage # None
    THEN " Featuring a fashion model posing with the attached product."
    ELSE " Featuring a fashion model posing with a generic commercial product."

Preamble == "Create a new hyper-realistic 4K commercial photoshoot image."
DescriptionClause(description) == " The product is: \"" \o description \o "\"."
PoseClause(pose) == " The model's pose is: \"" \o pose \o "\"."
AspectClause(aspectRatio) ==
    " The image must have a " \o aspectRatio \o " aspect ratio."

\* constructPrompt(formState, pose): textPrompt after each `+=`
ConstructPromptAlwaysDescribes(fs, pose) ==
    Preamble \o DescriptionClause(fs.productDescription)
    \o ReferenceClause(fs.modelImage, fs.productImage)
    \o PoseClause(pose) \o AspectClause(fs.aspectRatio) \o StyleClause(fs.style)
ConstructPrompt(fs, pose) ==
    LET t1 == IF fs.productDescription # ""
              THEN Preamble \o DescriptionClause(fs.productDescription)
              ELSE Preamble
        t2 == t1 \o ReferenceClause(fs.modelImage, fs.productImage)
        t3 == t2 \o PoseClause(pose)
        t4 == t3 \o AspectClause(fs.aspectRatio)
    IN  t4 \o StyleClause(fs.style)


\* ------------------------------------------------ generatePhotos loop
\* entry of the for loop: the first generateImage call is awaited
StartLoopParallel(b, poseTasks) ==
    [b EXCEPT !.pc = "generating", !.poseTasks = poseTasks, !.index = 1,
              !.calls = 1..Len(poseTasks),
              !.started = [i \in 1..Len(poseTasks) |-> i],
              !.text = ConstructPrompt(b.formState, poseTasks[1])]
StartLoop(b, poseTasks) ==
    [b EXCEPT !.pc = "generating", !.poseTasks = poseTasks, !.index = 1,
              !.calls = {1}, !.started = <<1>>,
              !.text = ConstructPrompt(b.formState, poseTasks[1])]

\* the rest of one iteration after the callback for `index` ran: suspend for
\* the delay, start the next call, or leave the loop
AfterCallbackSleepAlways(b, index) ==
    LET b1 == [b EXCEPT !.calls = @ \ {index}, !.done = @ \cup {index}]
    IN
    IF Positive(b.formState.delay)
    THEN [b1 EXCEPT !.pc = "delay", !.slept = Append(@, index)]
    ELSE IF index < Len(b.poseTasks)
    THEN [b1 EXCEPT !.pc = "generating", !.index = index + 1,
                    !.calls = @ \cup {index + 1},
                    !.started = Append(@, index + 1),
                    !.text = ConstructPrompt(b.formState,
                                             b.poseTasks[index + 1])]
    ELSE [b1 EXCEPT !.pc = "done"]
AfterCallback(b, index) ==
    LET b1 == [b EXCEPT !.calls = @ \ {index}, !.done = @ \cup {index}]
    IN
    IF index < Len(b.poseTasks) /\ Positive(b.formState.delay)
    THEN [b1 EXCEPT !.pc = "delay", !.slept = Append(@, index)]
    ELSE IF index < Len(b.poseTasks)
    THEN [b1 EXCEPT !.pc = "generating", !.index = index + 1,
                    !.calls = @ \cup {index + 1},
                    !.started = Append(@, index + 1),
                    !.text = ConstructPrompt(b.formState,
                                             b.poseTasks[index + 1])]
    ELSE [b1 EXCEPT !.pc = "done"]

\* the next iteration after the delay's timer fired
AfterDelay(b) ==
    IF b.index < Len(b.poseTasks)
    THEN [b EXCEPT !.pc = "generating", !.index = b.index + 1,
                   !.calls = @ \cup {b.index + 1},
                   !.started = Append(@, b.index + 1),
                   !.text = ConstructPrompt(b.formState,
                                            b.poseTasks[b.index + 1])]
    ELSE [b EXCEPT !.pc = "done"]

\* ------------------------------------------------------------ App: Init
\* the state after construction and the mount effect (the key modal opens
\* when there is no key), the form as the user filled it in
InitSession(forms, key) ==
    /\ apiKey = key
    /\ isApiKeyModalOpen = ~key
    /\ isDescriptionLoading = FALSE
    /\ descCalls = EmptyBag
    /\ formState \in forms
    /\ images = <<>>
    /\ isLoading = FALSE
    /\ error = NoError
    /\ lastUsedFormState = NullForm
    /\ prevIsLoading = FALSE
    /\ storedHistory = JsonStringify(<<PriorEntry>>)
    /\ history = LoadHistory(storedHistory)
    /\ reloading = FALSE
    /\ inputValue = [numberOfImages |-> formState.numberOfImages,
                     delay |-> formState.delay]
    /\ submittedForms = <<>>
    /\ batch = NoBatch
    /\ regenCalls = EmptyBag
    /\ videoCalls = EmptyBag
    /\ nBatch = 0
    /\ nAppend = 0
    /\ nUser = 0
    /\ ev = Event("init", NoId, 0, TRUE, None, None, None)

\* a session that starts with a key
InitFrom(forms) == InitSession(forms, TRUE)

\* the runs request MaxPoses items
InitWith(delays) == InitFrom({DefaultForm(MaxPoses, d) : d \in delays})

Init == InitWith(Delays)

\* ------------------------------------------------------- handleGenerate
\* the submit handler up to `await generatePoses(...)`, which calls the
\* gateway (pc planning) or, getAiClient having thrown, is rejected already
\* (pc nokey); the submit button is disabled while isLoading
SubmitDisabledNever(loading) == FALSE
SubmitDisabled(loading) == loading

\* the digit a character stands for, -1 for another character
DigitOf(c) ==
    CASE c = "0" -> 0 [] c = "1" -> 1 [] c = "2" -> 2 [] c = "3" -> 3
      [] c = "4" -> 4 [] c = "5" -> 5 [] c = "6" -> 6 [] c = "7" -> 7
      [] c = "8" -> 8 [] c = "9" -> 9 [] OTHER -> 0 - 1

\* the position of the first character of text at or after i that is not
\* white space
RECURSIVE SkipSpaces(_, _)
SkipSpaces(text, i) ==
    IF i <= Len(text) /\ SubSeq(text, i, i) \in {" ", "\t", "\n", "\r", "\f"}
    THEN SkipSpaces(text, i + 1)
    ELSE i

\* the number the digits of text from position i on stand for, after `acc`
RECURSIVE ParseDigits(_, _, _)
ParseDigits(text, i, acc) ==
    IF i > Len(text) \/ DigitOf(SubSeq(text, i, i)) < 0 THEN acc
    ELSE ParseDigits(text, i + 1, acc * 10 + DigitOf(SubSeq(text, i, i)))

\* parseInt(e.target.value, 10): leading spaces are skipped, a sign is read,
\* then the digits up to the first other character; NaN without a digit
ParseInt(text) ==
    LET i == SkipSpaces(text, 1)
        signed == i <= Len(text) /\ SubSeq(text, i, i) \in {"-", "+"}
        j == IF signed THEN i + 1 ELSE i
    IN  IF j > Len(text) \/ DigitOf(SubSeq(text, j, j)) < 0 THEN NaN
        ELSE IF signed /\ SubSeq(text, i, i) = "-"
        THEN Num(0 - ParseDigits(text, j, 0))
        ELSE Num(ParseDigits(text, j, 0))

\* the form's constraint validation on submit: the numberOfImages input has
\* min="1" max="10", the delay input min="0" max="10", and neither is
\* required.  The check reads the fields as rendered for the form: NaN is
\* an empty field, which no range constraint applies to, and a null leaves
\* the field with the value it held.
CountInRange(v) == IsNumber(v) /\ 1 <= v.n /\ v.n <= 10
DelayInRange(v) == IsNumber(v) /\ 0 <= v.n /\ v.n <= 10
SubmitValid(fs) ==
    LET count == DomValue(fs.numberOfImages, inputValue.numberOfImages)
        delay == DomValue(fs.delay, inputValue.delay)
    IN  /\ ~IsNumber(count) \/ CountInRange(count)
        /\ ~IsNumber(delay) \/ DelayInRange(delay)

HandleGenerate ==
    /\ Rendered
    /\ ~SubmitDisabled(isLoading)
    /\ SubmitValid(formState)
    /\ nUser < MaxUserActions
    /\ nUser' = nUser + 1
    /\ isLoading' = TRUE
    /\ error' = NoError
    /\ images' = <<>>
    /\ lastUsedFormState' = formState
    /\ nBatch' = nBatch + 1
    /\ submittedForms' = Append(submittedForms, formState)
    /\ batch' = [NoBatch EXCEPT !.pc = IF apiKey THEN "planning" ELSE "nokey",
                                !.formState = formState,
                                !.appendBase = nAppend]
    /\ ev' = Event("handleGenerate", NoId, 0, TRUE, None, None, None)
    /\ UNCHANGED <<formState, regenCalls, videoCalls>>
    /\ UNCHANGED <<apiKey, reloading, isApiKeyModalOpen, isDescriptionLoading,
                   descCalls>>
    /\ Render(TRUE)

\* setImages(prev => prev.length > 0 ? prev.map(...error...) : [])
CatchImages(imgs) == IF Len(imgs) > 0 THEN FailAll(imgs) ELSE <<>>

\* setError in the catch block of handleGenerate
CatchError(message) == <<"An unexpected error occurred", message>>

\* the catch and finally blocks of handleGenerate
CatchAndFinally(message, outcome) ==
    /\ error' = CatchError(message)
    /\ images' = CatchImages(images)
    /\ isLoading' = FALSE
    /\ batch' = [batch EXCEPT !.pc = "failed"]
    /\ ev' = Event("generatePoses", NoId, 0, FALSE, outcome, message, None)
    /\ UNCHANGED <<formState, lastUsedFormState, regenCalls, videoCalls, nBatch, submittedForms,
                   nUser>>
    /\ isApiKeyModalOpen' = ModalAfter(message)
    /\ UNCHANGED <<apiKey, reloading, isDescriptionLoading, descCalls>>
    /\ Deferred

\* generatePoses rejected: the catch block runs
GeneratePosesRejects ==
    /\ batch.pc = "planning"
    /\ CatchAndFinally(PlanFailure, "rejected")

\* generatePoses threw in getAiClient: the catch block runs
GeneratePosesThrows ==
    /\ batch.pc = "nokey"
    /\ CatchAndFinally(KeyMissing, "nokey")

\* getAiClient at the entry of the generateImage calls a step starts: without
\* a key they throw before the gateway is called
KeyChecked(b) ==
    [b EXCEPT !.unsent = IF apiKey THEN {} ELSE b.calls \ batch.calls]

\* generatePoses resolved: an empty list throws into the catch block; else
\* the items are created and generatePhotos enters its loop
GeneratePosesResolves(poses) ==
    /\ batch.pc = "planning"
    /\ IF Len(poses) = 0
       THEN CatchAndFinally(NoPoses, "empty")
       ELSE /\ images' = InitialImages(nBatch, poses, batch.formState)
            /\ batch' = KeyChecked(StartLoop(batch, poses))
            /\ ev' = Event("generatePoses", NoId, 0, TRUE, "poses", Len(poses), None)
            /\ UNCHANGED <<formState, isLoading, error, lastUsedFormState,
                           regenCalls, videoCalls, nBatch, submittedForms, nUser>>
            /\ UNCHANGED <<apiKey, reloading, isApiKeyModalOpen, isDescriptionLoading,
                           descCalls>>
            /\ Deferred

\* the continuation of generatePhotos after a callback: the loop goes on, or
\* generatePhotos returns and the finally block clears isLoading
LoopContinuesStaysLoading(b) ==
    /\ batch' = KeyChecked(b)
    /\ isLoading' = isLoading
LoopContinues(b) ==
    /\ batch' = KeyChecked(b)
    /\ isLoading' = IF b.pc = "done" THEN FALSE ELSE isLoading

\* generateImage resolved for the awaited pose: onSuccess, then the loop
GenerateImageResolves(index) ==
    /\ batch.pc = "generating"
    /\ index \in batch.calls
    /\ index \notin batch.unsent
    /\ images' = OnSuccess(images, index,
                           ImageFor(batch.poseTasks[index], batch.formState.style))
    /\ LoopContinues(AfterCallback(batch, index))
    /\ ev' = Event("generateImage", NoId, index, TRUE, None, None, None)
    /\ UNCHANGED <<formState, error, lastUsedFormState, regenCalls, videoCalls,
                   nBatch, submittedForms, nUser>>
    /\ UNCHANGED <<apiKey, reloading, isApiKeyModalOpen, isDescriptionLoading,
                   descCalls>>
    /\ Deferred

\* generateImage rejected for the awaited pose (the gateway's reason, or
\* getAiClient's error when the call was not sent): onError, then the loop
GenerateImageRejects(index, message) ==
    /\ batch.pc = "generating"
    /\ index \in batch.calls
    /\ (message = KeyMissing) <=> (index \in batch.unsent)
    /\ images' = OnError(images, index, message)
    /\ LoopContinues(AfterCallback(batch, index))
    /\ ev' = Event("generateImage", NoId, index, FALSE, message, None, None)
    /\ UNCHANGED <<formState, error, lastUsedFormState, regenCalls, videoCalls,
                   nBatch, submittedForms, nUser>>
    /\ UNCHANGED <<apiKey, reloading, isApiKeyModalOpen, isDescriptionLoading,
                   descCalls>>
    /\ Deferred

\* the delay's setTimeout fired
DelayElapses ==
    /\ batch.pc = "delay"
    /\ LoopContinues(AfterDelay(batch))
    /\ ev' = Event("delay", NoId, batch.index, TRUE, None, None, None)
    /\ UNCHANGED <<formState, images, error, lastUsedFormState, regenCalls,
                   videoCalls, nBatch, submittedForms, nUser>>
    /\ UNCHANGED <<apiKey, reloading, isApiKeyModalOpen, isDescriptionLoading,
                   descCalls>>
    /\ Deferred

\* ------------------------------------------------ handleViewHistoryItem
HandleViewHistoryItem(entry) ==
    /\ Rendered
    /\ nUser < MaxUserActions
    /\ nUser' = nUser + 1
    /\ formState' = entry.formState
    /\ images' = entry.images
    /\ error' = NoError
    /\ ev' = Event("handleViewHistoryItem", NoId, entry.id, TRUE, None, None, None)
    /\ UNCHANGED <<isLoading, lastUsedFormState, batch, regenCalls, videoCalls,
                   nBatch, submittedForms>>
    /\ UNCHANGED <<apiKey, reloading, isApiKeyModalOpen, isDescriptionLoading,
                   descCalls>>
    /\ Render(TRUE)

\* ----------------------------------------------------- handleRegenerate
\* images.find(img => img.id === imageId): its index, 0 when absent
FindImage(imgs, imageId) ==
    IF \E i \in 1..Len(imgs) : imgs[i].id = imageId
    THEN CHOOSE i \in 1..Len(imgs) :
            /\ imgs[i].id = imageId
            /\ \A j \in 1..(i - 1) : imgs[j].id # imageId
    ELSE 0

\* ImageCard renders the regenerate and video panels over a success image only
PanelShown(img) == img.status = "success"

\* the early return on unchanged style and prompt
UnchangedPromptNegated(img, newStyle, newPrompt) ==
    newStyle = img.style /\ newPrompt # img.prompt
Unchanged(img, newStyle, newPrompt) ==
    newStyle = img.style /\ newPrompt = img.prompt

\* the first setImages of handleRegenerate
RegenerateStartKeepVideo(imgs, imageId, newStyle, newPrompt) ==
    [i \in 1..Len(imgs) |->
        IF imgs[i].id = imageId
        THEN [imgs[i] EXCEPT !.status = "loading", !.style = newStyle,
                             !.prompt = newPrompt]
        ELSE imgs[i]]
RegenerateStart(imgs, imageId, newStyle, newPrompt) ==
    [i \in 1..Len(imgs) |->
        IF imgs[i].id = imageId
        THEN [imgs[i] EXCEPT !.status = "loading", !.style = newStyle,
                             !.prompt = newPrompt, !.videoStatus = "idle",
                             !.videoSrc = NoVideo, !.videoError = None]
        ELSE imgs[i]]

\* setImages after regeneratePhoto resolved
RegenerateSuccessStaysLoading(imgs, imageId, imageUrl) ==
    [i \in 1..Len(imgs) |->
        IF imgs[i].id = imageId THEN [imgs[i] EXCEPT !.src = imageUrl]
        ELSE imgs[i]]
RegenerateSuccess(imgs, imageId, imageUrl) ==
    [i \in 1..Len(imgs) |->
        IF imgs[i].id = imageId
        THEN [imgs[i] EXCEPT !.src = imageUrl, !.status = "success"]
        ELSE imgs[i]]

\* setImages after regeneratePhoto rejected
RegenerateFailureAll(imgs, imageId, message) ==
    [i \in 1..Len(imgs) |->
        [imgs[i] EXCEPT !.status = "error", !.error = message]]
RegenerateFailure(imgs, imageId, message) ==
    [i \in 1..Len(imgs) |->
        IF imgs[i].id = imageId
        THEN [imgs[i] EXCEPT !.status = "error", !.error = message]
        ELSE imgs[i]]

\* the call regeneratePhoto(newFormState, newPrompt) made for an item, with
\* the prompt constructPrompt returns for it; it is sent to the gateway
\* unless getAiClient throws
RegenerateCall(imageId, lufs, newStyle, newPrompt) ==
    LET newFormState == [lufs EXCEPT !.style = newStyle] IN
    [id |-> imageId, formState |-> newFormState, pose |-> newPrompt,
     text |-> ConstructPrompt(newFormState, newPrompt), sent |-> apiKey]

\* handleRegenerate called for item `imageId` with a style and a prompt, up
\* to `await regeneratePhoto(...)`
RegenerateSilentOnNull(imageId, newStyle, newPrompt) ==
    LET k == FindImage(images, imageId) IN
    /\ Rendered
    /\ k # 0
    /\ nUser' = nUser + 1
    /\ ev' = Event("handleRegenerate", imageId, k, TRUE, newStyle, newPrompt,
                   images[k].videoStatus)
    /\ IF lastUsedFormState = NullForm
       THEN UNCHANGED <<images, regenCalls, error>>
       ELSE IF Unchanged(images[k], newStyle, newPrompt)
       THEN UNCHANGED <<images, regenCalls, error>>
       ELSE /\ images' = RegenerateStart(images, imageId, newStyle, newPrompt)
            /\ regenCalls' = regenCalls (+) SetToBag({
                   RegenerateCall(imageId, lastUsedFormState, newStyle,
                                  newPrompt)})
            /\ UNCHANGED error
    /\ UNCHANGED <<formState, isLoading, lastUsedFormState, batch, videoCalls,
                   nBatch, submittedForms>>
    /\ UNCHANGED <<apiKey, reloading, isApiKeyModalOpen, isDescriptionLoading,
                   descCalls>>
    /\ Render(TRUE)
Regenerate(imageId, newStyle, newPrompt) ==
    LET k == FindImage(images, imageId) IN
    /\ Rendered
    /\ k # 0
    /\ nUser' = nUser + 1
    /\ ev' = Event("handleRegenerate", imageId, k, TRUE, newStyle, newPrompt,
                   images[k].videoStatus)
    /\ IF lastUsedFormState = NullForm
       THEN /\ error' = <<"Cannot regenerate. Original form data not found.">>
            /\ UNCHANGED <<images, regenCalls>>
       ELSE IF Unchanged(images[k], newStyle, newPrompt)
       THEN UNCHANGED <<images, regenCalls, error>>
       ELSE /\ images' = RegenerateStart(images, imageId, newStyle, newPrompt)
            /\ regenCalls' = regenCalls (+) SetToBag({
                   RegenerateCall(imageId, lastUsedFormState, newStyle,
                                  newPrompt)})
            /\ UNCHANGED error
    /\ UNCHANGED <<formState, isLoading, lastUsedFormState, batch, videoCalls,
                   nBatch, submittedForms>>
    /\ UNCHANGED <<apiKey, reloading, isApiKeyModalOpen, isDescriptionLoading,
                   descCalls>>
    /\ Render(TRUE)

\* the regenerate button of item `imageId`, with the panel's style and prompt
HandleRegenerate(imageId, newStyle, newPrompt) ==
    LET k == FindImage(images, imageId) IN
    /\ k # 0
    /\ PanelShown(images[k])
    /\ nUser < MaxUserActions
    /\ Regenerate(imageId, newStyle, newPrompt)

\* regeneratePhoto resolved
RegeneratePhotoResolves(call) ==
    /\ BagIn(call, regenCalls)
    /\ call.sent
    /\ regenCalls' = regenCalls (-) SetToBag({call})
    /\ images' = RegenerateSuccess(images, call.id,
                                   ImageFor(call.pose, call.formState.style))
    /\ ev' = Event("regeneratePhoto", call.id, 0, TRUE, None, None, None)
    /\ UNCHANGED <<formState, isLoading, error, lastUsedFormState, batch,
                   videoCalls, nBatch, submittedForms, nUser>>
    /\ UNCHANGED <<apiKey, reloading, isApiKeyModalOpen, isDescriptionLoading,
                   descCalls>>
    /\ Deferred

\* regeneratePhoto rejected (the gateway's reason, or getAiClient's error
\* when the call was not sent)
RegeneratePhotoRejects(call, message) ==
    /\ BagIn(call, regenCalls)
    /\ (message = KeyMissing) <=> ~call.sent
    /\ regenCalls' = regenCalls (-) SetToBag({call})
    /\ error' = <<"Failed to regenerate image", message>>
    /\ images' = RegenerateFailure(images, call.id, message)
    /\ ev' = Event("regeneratePhoto", call.id, 0, FALSE, message, None, None)
    /\ UNCHANGED <<formState, isLoading, lastUsedFormState, batch, videoCalls,
                   nBatch, submittedForms, nUser>>
    /\ isApiKeyModalOpen' = ModalAfter(message)
    /\ UNCHANGED <<apiKey, reloading, isDescriptionLoading, descCalls>>
    /\ Deferred

\* ---------------------------------------------------- handleVideoAction
\* message of a rejected gateway call of generateVideoFromImage
VideoReasons == {"network error"}
\* message thrown when the finished operation carries no video uri
NoUri == "Video generation failed or did not return a valid URI."
\* message thrown when the download response is not ok
DownloadFailed == "Failed to download video file"
\* what generateVideos / getVideosOperation answer: the operation is not
\* done, done with a video uri, or done without one
OperationStates == {"pending", "done", "nouri"}
\* blobToBase64 of the downloaded file: the video made from the photo `src`
VideoOf(src) == <<"video", src>>

\* VideoButton is disabled while the item's video is loading
VideoButtonEnabled(img) == img.videoStatus # "loading"

\* the first setImages of handleVideoAction
VideoStart(imgs, imageId) ==
    [i \in 1..Len(imgs) |->
        IF imgs[i].id = imageId
        THEN [imgs[i] EXCEPT !.videoStatus = "loading", !.videoError = None]
        ELSE imgs[i]]

\* setImages after generateVideoFromImage resolved
VideoSuccessAll(imgs, imageId, videoSrc) ==
    [i \in 1..Len(imgs) |->
        [imgs[i] EXCEPT !.videoStatus = "success", !.videoSrc = videoSrc]]
VideoSuccess(imgs, imageId, videoSrc) ==
    [i \in 1..Len(imgs) |->
        IF imgs[i].id = imageId
        THEN [imgs[i] EXCEPT !.videoStatus = "success", !.videoSrc = videoSrc]
        ELSE imgs[i]]

\* setImages after generateVideoFromImage rejected
VideoFailure(imgs, imageId, message) ==
    [i \in 1..Len(imgs) |->
        IF imgs[i].id = imageId
        THEN [imgs[i] EXCEPT !.videoStatus = "error", !.videoError = message]
        ELSE imgs[i]]

\* the early returns of handleVideoAction: the photo is not a success, the
\* video exists already (the viewer opens), the video is being generated
PhotoReadyOrFailed(img) == img.status # "loading"
PhotoReady(img) == img.status = "success"
VideoPlayableOrFailed(img) ==
    \/ img.videoStatus = "success" /\ img.videoSrc # NoVideo
    \/ img.videoStatus = "error"
VideoPlayable(img) == img.videoStatus = "success" /\ img.videoSrc # NoVideo
VideoInProgressNever(img) == FALSE
VideoInProgress(img) == img.videoStatus = "loading"

\* handleVideoAction called for item `imageId`, up to
\* `await generateVideos(...)`
VideoAction(imageId) ==
    LET k == FindImage(images, imageId) IN
    /\ Rendered
    /\ k # 0
    /\ nUser' = nUser + 1
    /\ ev' = Event("handleVideoAction", imageId, k, TRUE, images[k].videoStatus,
                   images[k].status, None)
    /\ IF ~PhotoReady(images[k])
       THEN UNCHANGED <<images, videoCalls, error>>
       ELSE IF VideoPlayable(images[k])
       THEN UNCHANGED <<images, videoCalls, error>>
       ELSE IF VideoInProgress(images[k])
       THEN UNCHANGED <<images, videoCalls, error>>
       ELSE /\ images' = VideoStart(images, imageId)
            /\ error' = NoError
            /\ videoCalls' = videoCalls (+) SetToBag({
                   [id |-> imageId, src |-> images[k].src,
                    stage |-> IF apiKey THEN "submit" ELSE "nokey"]})
    /\ UNCHANGED <<formState, isLoading, lastUsedFormState, batch, regenCalls,
                   nBatch, submittedForms>>
    /\ UNCHANGED <<apiKey, reloading, isApiKeyModalOpen, isDescriptionLoading,
                   descCalls>>
    /\ Render(TRUE)

\* the video button of item `imageId`
HandleVideoAction(imageId) ==
    LET k == FindImage(images, imageId) IN
    /\ k # 0
    /\ PanelShown(images[k])
    /\ VideoButtonEnabled(images[k])
    /\ nUser < MaxUserActions
    /\ VideoAction(imageId)

\* the catch block of handleVideoAction
VideoCatchRetry(call, message) ==
    /\ videoCalls' = (videoCalls (-) SetToBag({call}))
                     (+) SetToBag({[call EXCEPT !.stage = "submit"]})
    /\ error' = <<"Failed to generate video", message>>
    /\ images' = VideoFailure(images, call.id, message)
    /\ isApiKeyModalOpen' = ModalAfter(message)
VideoCatch(call, message) ==
    /\ videoCalls' = videoCalls (-) SetToBag({call})
    /\ error' = <<"Failed to generate video", message>>
    /\ images' = VideoFailure(images, call.id, message)
    /\ isApiKeyModalOpen' = ModalAfter(message)

\* generateVideoFromImage after the operation was read: poll again after the
\* sleep, or leave the loop and download, or throw for the missing uri
VideoOperationReadNoWait(call, op) ==
    IF op = "pending"
    THEN /\ videoCalls' = (videoCalls (-) SetToBag({call}))
                          (+) SetToBag({[call EXCEPT !.stage = "poll"]})
         /\ UNCHANGED <<images, error, isApiKeyModalOpen>>
    ELSE IF op = "done"
    THEN /\ videoCalls' = (videoCalls (-) SetToBag({call}))
                          (+) SetToBag({[call EXCEPT !.stage = "fetch"]})
         /\ UNCHANGED <<images, error, isApiKeyModalOpen>>
    ELSE VideoCatch(call, NoUri)
VideoOperationRead(call, op) ==
    IF op = "pending"
    THEN /\ videoCalls' = (videoCalls (-) SetToBag({call}))
                          (+) SetToBag({[call EXCEPT !.stage = "sleep"]})
         /\ UNCHANGED <<images, error, isApiKeyModalOpen>>
    ELSE IF op = "done"
    THEN /\ videoCalls' = (videoCalls (-) SetToBag({call}))
                          (+) SetToBag({[call EXCEPT !.stage = "fetch"]})
         /\ UNCHANGED <<images, error, isApiKeyModalOpen>>
    ELSE VideoCatch(call, NoUri)

\* generateVideos (stage submit) or getVideosOperation (stage poll) resolved
VideoOperationResolves(call, op) ==
    /\ BagIn(call, videoCalls)
    /\ call.stage \in {"submit", "poll"}
    /\ VideoOperationRead(call, op)
    /\ ev' = Event("videoOperation", call.id, 0, TRUE, call.stage, op, None)
    /\ UNCHANGED <<formState, isLoading, lastUsedFormState, batch, regenCalls,
                   nBatch, submittedForms, nUser>>
    /\ UNCHANGED <<apiKey, reloading, isDescriptionLoading, descCalls>>
    /\ Deferred

\* the 10 s sleep of the poll loop ended: getVideosOperation is awaited
VideoSleepElapses(call) ==
    /\ BagIn(call, videoCalls)
    /\ call.stage = "sleep"
    /\ videoCalls' = (videoCalls (-) SetToBag({call}))
                     (+) SetToBag({[call EXCEPT !.stage = "poll"]})
    /\ ev' = Event("videoSleep", call.id, 0, TRUE, None, None, None)
    /\ UNCHANGED <<formState, images, isLoading, error, lastUsedFormState, batch,
                   regenCalls, nBatch, submittedForms, nUser>>
    /\ UNCHANGED <<apiKey, reloading, isApiKeyModalOpen, isDescriptionLoading,
                   descCalls>>
    /\ Deferred

\* the download resolved: the body of an ok response is awaited
\* (videoResponse.blob()), another response throws
VideoFetchResolves(call, ok) ==
    /\ BagIn(call, videoCalls)
    /\ call.stage = "fetch"
    /\ IF ok
       THEN /\ videoCalls' = (videoCalls (-) SetToBag({call}))
                             (+) SetToBag({[call EXCEPT !.stage = "blob"]})
            /\ UNCHANGED <<images, error, isApiKeyModalOpen>>
       ELSE VideoCatch(call, DownloadFailed)
    /\ ev' = Event("videoFetch", call.id, 0, ok, call.src, None, None)
    /\ UNCHANGED <<formState, isLoading, lastUsedFormState, batch, regenCalls,
                   nBatch, submittedForms, nUser>>
    /\ UNCHANGED <<apiKey, reloading, isDescriptionLoading, descCalls>>
    /\ Deferred

\* the body was read: blobToBase64 starts its FileReader and is awaited
VideoBlobResolves(call) ==
    /\ BagIn(call, videoCalls)
    /\ call.stage = "blob"
    /\ videoCalls' = (videoCalls (-) SetToBag({call}))
                     (+) SetToBag({[call EXCEPT !.stage = "read"]})
    /\ ev' = Event("videoBlob", call.id, 0, TRUE, None, None, None)
    /\ UNCHANGED <<formState, images, isLoading, error, lastUsedFormState, batch,
                   regenCalls, nBatch, submittedForms, nUser>>
    /\ UNCHANGED <<apiKey, reloading, isApiKeyModalOpen, isDescriptionLoading,
                   descCalls>>
    /\ Deferred

\* the FileReader's onloadend: generateVideoFromImage returns the data URL
\* and handleVideoAction records it
VideoReadEnds(call) ==
    /\ BagIn(call, videoCalls)
    /\ call.stage = "read"
    /\ videoCalls' = videoCalls (-) SetToBag({call})
    /\ images' = VideoSuccess(images, call.id, VideoOf(call.src))
    /\ ev' = Event("videoRead", call.id, 0, TRUE, call.src, None, None)
    /\ UNCHANGED <<formState, isLoading, error, lastUsedFormState, batch,
                   regenCalls, nBatch, submittedForms, nUser>>
    /\ UNCHANGED <<apiKey, reloading, isApiKeyModalOpen, isDescriptionLoading,
                   descCalls>>
    /\ Deferred

\* the FileReader's onerror: the promise is rejected with the event, which
\* has no message, so `err.message.includes` throws in the catch block of
\* handleVideoAction before any state is set
VideoReadFails(call) ==
    /\ BagIn(call, videoCalls)
    /\ call.stage = "read"
    /\ videoCalls' = videoCalls (-) SetToBag({call})
    /\ ev' = Event("videoReadFailed", call.id, 0, FALSE, call.src, None, None)
    /\ UNCHANGED <<formState, images, isLoading, error, lastUsedFormState, batch,
                   regenCalls, nBatch, submittedForms, nUser>>
    /\ UNCHANGED <<apiKey, reloading, isApiKeyModalOpen, isDescriptionLoading,
                   descCalls>>
    /\ Deferred

\* the awaited call (submit, poll, download or the reading of its body)
\* rejected, or generateVideoFromImage threw in getAiClient (stage nokey)
VideoCallRejects(call, message) ==
    /\ BagIn(call, videoCalls)
    /\ call.stage \in {"submit", "poll", "fetch", "blob", "nokey"}
    /\ (message = KeyMissing) <=> (call.stage = "nokey")
    /\ VideoCatch(call, message)
    /\ ev' = Event("videoRejected", call.id, 0, FALSE, call.stage, message, None)
    /\ UNCHANGED <<formState, isLoading, lastUsedFormState, batch, regenCalls,
                   nBatch, submittedForms, nUser>>
    /\ UNCHANGED <<apiKey, reloading, isDescriptionLoading, descCalls>>
    /\ Deferred

\* ------------------------------------------- handleGenerateDescription
\* the product photos the runs upload
UploadedProduct == "product photo"
OtherProduct == "other product photo"
ProductFiles == {UploadedProduct, OtherProduct}

\* the text generateDescription returns for a product image
DescriptionOf(image) == "description of the " \o image
\* message of the error generateDescription throws for a failed gateway call
DescribeFailure == "Failed to generate description"

\* the Generate button of the description field
DescribeDisabled(fs, loading) == fs.productImage = None \/ loading

\* handleGenerateDescription up to `await generateDescription(...)`
HandleGenerateDescription ==
    /\ Rendered
    /\ ~DescribeDisabled(formState, isDescriptionLoading)
    /\ formState.productImage # None
    /\ nUser < MaxUserActions
    /\ nUser' = nUser + 1
    /\ isDescriptionLoading' = TRUE
    /\ error' = NoError
    /\ descCalls' = descCalls (+) SetToBag({
           [image |-> formState.productImage,
            stage |-> IF apiKey THEN "sent" ELSE "nokey"]})
    /\ ev' = Event("handleGenerateDescription", NoId, 0, TRUE,
                   formState.productImage, None, None)
    /\ UNCHANGED <<formState, images, isLoading, lastUsedFormState, batch,
                   regenCalls, videoCalls, nBatch, submittedForms, apiKey, reloading, isApiKeyModalOpen>>
    /\ Render(TRUE)

\* setFormState after generateDescription resolved
DescriptionResult(fs, call) ==
    [fs EXCEPT !.productDescription = DescriptionOf(call.image)]

\* generateDescription resolved
GenerateDescriptionResolves(call) ==
    /\ BagIn(call, descCalls)
    /\ call.stage = "sent"
    /\ descCalls' = descCalls (-) SetToBag({call})
    /\ formState' = DescriptionResult(formState, call)
    /\ isDescriptionLoading' = FALSE
    /\ ev' = Event("generateDescription", NoId, 0, TRUE, call.image, None, None)
    /\ UNCHANGED <<images, isLoading, error, lastUsedFormState, batch,
                   regenCalls, videoCalls, nBatch, submittedForms, nUser, apiKey, reloading,
                   isApiKeyModalOpen>>
    /\ Deferred

\* generateDescription rejected (the gateway call failed, or getAiClient
\* threw): the catch and finally blocks
GenerateDescriptionRejects(call, message) ==
    /\ BagIn(call, descCalls)
    /\ (message = KeyMissing) <=> (call.stage = "nokey")
    /\ descCalls' = descCalls (-) SetToBag({call})
    /\ isApiKeyModalOpen' = ModalAfter(message)
    /\ error' = <<"Failed to generate description", message>>
    /\ isDescriptionLoading' = FALSE
    /\ ev' = Event("generateDescription", NoId, 0, FALSE, call.image, message,
                   None)
    /\ UNCHANGED <<formState, images, isLoading, lastUsedFormState, batch,
                   regenCalls, videoCalls, nBatch, submittedForms, nUser, apiKey, reloading>>
    /\ Deferred

\* handleProductImageChange: a file chosen in the uploader, or the image
\* removed (null)
HandleProductImageChange(file) ==
    /\ Rendered
    /\ nUser < MaxUserActions
    /\ nUser' = nUser + 1
    /\ formState' = [formState EXCEPT !.productImage = file,
                                      !.productDescription = ""]
    /\ ev' = Event("productImageChange", NoId, 0, TRUE, file, None, None)
    /\ UNCHANGED <<images, isLoading, error, lastUsedFormState, batch,
                   regenCalls, videoCalls, nBatch, submittedForms, apiKey, reloading, isApiKeyModalOpen,
                   isDescriptionLoading, descCalls>>
    /\ Render(TRUE)

\* the stored key is removed, alone or with the rest of the site's storage
\* (the stored history), and the build has no key: from now on getApiKey
\* returns null
KeyRemoved ==
    /\ apiKey
    /\ apiKey' = FALSE
    /\ storedHistory' \in {storedHistory, Null}
    /\ ev' = Event("keyRemoved", NoId, 0, TRUE, None, None, None)
    /\ UNCHANGED <<formState, images, isLoading, error, lastUsedFormState, batch,
                   regenCalls, videoCalls, nBatch, submittedForms, nUser, isApiKeyModalOpen,
                   isDescriptionLoading, descCalls, reloading, prevIsLoading,
                   history, nAppend, inputValue>>

\* The page replaced by the reload: the old page with its calls in flight and
\* its pending render is gone, the component is constructed anew and its
\* mount effects run: the modal opens unless hasApiKey() (`key`), the history
\* is the one parsed from the stored item.
NewPage(key, item) ==
    /\ reloading' = FALSE
    /\ formState' = DefaultForm(3, 1)
    /\ images' = <<>>
    /\ isLoading' = FALSE
    /\ isDescriptionLoading' = FALSE
    /\ error' = NoError
    /\ lastUsedFormState' = NullForm
    /\ prevIsLoading' = FALSE
    /\ isApiKeyModalOpen' = ~key
    /\ history' = LoadHistory(item)
    /\ inputValue' = [numberOfImages |-> Num(3), delay |-> Num(1)]
    /\ batch' = NoBatch
    /\ regenCalls' = EmptyBag
    /\ videoCalls' = EmptyBag
    /\ descCalls' = EmptyBag

\* The key modal's form submitted with a text that is not blank:
\* handleApiKeySave stores the key (`stored`: localStorage took it; setApiKey
\* catches the refusal), closes the modal and calls location.reload(), which
\* returns.  The old page stays, its continuations and renders running,
\* until the navigation commits (PageLoads), or the navigation commits before
\* another task of the old page runs.
HandleApiKeySave(stored) ==
    /\ Rendered
    /\ isApiKeyModalOpen
    /\ nUser < MaxUserActions
    /\ nUser' = nUser + 1
    /\ apiKey' = (apiKey \/ stored)
    /\ ev' = Event("apiKeySave", NoId, 0, stored, None, None, None)
    /\ \/ /\ isApiKeyModalOpen' = FALSE
          /\ reloading' = TRUE
          /\ UNCHANGED <<formState, images, isLoading, error,
                         lastUsedFormState, batch, regenCalls, videoCalls,
                         nBatch, submittedForms, isDescriptionLoading, descCalls>>
          /\ Render(TRUE)
       \/ /\ NewPage(apiKey', storedHistory)
          /\ UNCHANGED <<storedHistory, nBatch, submittedForms, nAppend>>

\* the navigation of a reload commits
PageLoads ==
    /\ reloading
    /\ NewPage(apiKey, storedHistory)
    /\ ev' = Event("pageLoad", NoId, 0, apiKey, None, None, None)
    /\ UNCHANGED <<apiKey, storedHistory, nBatch, submittedForms, nAppend, nUser>>

\* no call is pending whose promise getAiClient has rejected already: the
\* continuation of such a call runs before any other event
NoThrowPending ==
    /\ batch.pc # "nokey"
    /\ batch.unsent = {}
    /\ \A c \in BagToSet(regenCalls) : c.sent
    /\ \A c \in BagToSet(videoCalls) : c.stage # "nokey"
    /\ \A c \in BagToSet(descCalls) : c.stage # "nokey"

\* ------------------------------------------------------- the history panel
\* the delete button of an entry: removeFromHistory(entry.id), the question
\* of window.confirm answered with yes (answered with no, nothing changes);
\* the filtered list is the state's whether localStorage took it or not
RemoveFromHistory(id, saved) ==
    /\ Rendered
    /\ \E i \in 1..Len(history) : history[i].id = id
    /\ nUser < MaxUserActions
    /\ nUser' = nUser + 1
    /\ history' = RemoveEntry(history, id)
    /\ storedHistory' = IF saved THEN JsonStringify(history')
                        ELSE storedHistory
    /\ ev' = Event("removeFromHistory", NoId, id, TRUE, None, None, None)
    /\ UNCHANGED <<formState, images, isLoading, error, lastUsedFormState,
                   prevIsLoading, batch, regenCalls, videoCalls, nBatch, submittedForms, nAppend,
                   apiKey, reloading, isApiKeyModalOpen, isDescriptionLoading,
                   descCalls, inputValue>>

\* the Clear All button, rendered while the history is not empty:
\* clearHistory, the question of window.confirm answered with yes;
\* localStorage.removeItem removes the item (`removed`) or throws
ClearHistory(removed) ==
    /\ Rendered
    /\ Len(history) > 0
    /\ nUser < MaxUserActions
    /\ nUser' = nUser + 1
    /\ history' = <<>>
    /\ storedHistory' = IF removed THEN Null ELSE storedHistory
    /\ ev' = Event("clearHistory", NoId, 0, TRUE, None, None, None)
    /\ UNCHANGED <<formState, images, isLoading, error, lastUsedFormState,
                   prevIsLoading, batch, regenCalls, videoCalls, nBatch, submittedForms, nAppend,
                   apiKey, reloading, isApiKeyModalOpen, isDescriptionLoading,
                   descCalls, inputValue>>

\* ------------------------------------------------------------ the render
\* the task that renders the updates queued by continuations and runs the
\* history effect; `ok` tells whether the effect appended, `a` is the step
\* that ran last before the render
RenderTask(saved) ==
    /\ ~Rendered
    /\ ev' = Event("render", NoId, 0,
                   EffectFires(prevIsLoading, isLoading, lastUsedFormState),
                   ev.op, None, None)
    /\ UNCHANGED <<formState, images, isLoading, error, lastUsedFormState, batch,
                   regenCalls, videoCalls, nBatch, submittedForms, nUser, apiKey, reloading,
                   isApiKeyModalOpen, isDescriptionLoading, descCalls>>
    /\ Render(saved)

\* the ids present in the displayed list
ShownIds == {images[i].id : i \in 1..Len(images)}

\* the prompts the regenerate panel can submit for an item
PanelPrompts(imageId) ==
    {images[FindImage(images, imageId)].prompt, EditedPrompt}

\* ------------------------------------------------------- specifications
HistoryEntries == {history[i] : i \in 1..Len(history)}

\* an onChange handler of the form that sets formState to `fs`
FormChangeSetsLast(op, value, fs) ==
    /\ Rendered
    /\ nUser < MaxUserActions
    /\ nUser' = nUser + 1
    /\ formState' = fs
    /\ lastUsedFormState' = fs
    /\ ev' = Event(op, NoId, 0, TRUE, value, None, None)
    /\ UNCHANGED <<images, isLoading, error, batch, regenCalls, videoCalls,
                   nBatch, submittedForms>>
    /\ UNCHANGED <<apiKey, reloading, isApiKeyModalOpen, isDescriptionLoading,
                   descCalls>>
    /\ Render(TRUE)
FormChange(op, value, fs) ==
    /\ Rendered
    /\ nUser < MaxUserActions
    /\ nUser' = nUser + 1
    /\ formState' = fs
    /\ ev' = Event(op, NoId, 0, TRUE, value, None, None)
    /\ UNCHANGED <<images, isLoading, error, lastUsedFormState, batch,
                   regenCalls, videoCalls, nBatch, submittedForms>>
    /\ UNCHANGED <<apiKey, reloading, isApiKeyModalOpen, isDescriptionLoading,
                   descCalls>>
    /\ Render(TRUE)

\* onChange of the numberOfImages input
HandleCountChange(text) ==
    FormChange("countChange", text,
               [formState EXCEPT !.numberOfImages = ParseInt(text)])

\* onChange of the delay input
HandleDelayChange(text) ==
    FormChange("delayChange", text, [formState EXCEPT !.delay = ParseInt(text)])

\* onChange of the description textarea, disabled while a description is
\* generated
HandleDescriptionChange(text) ==
    /\ ~isDescriptionLoading
    /\ FormChange("descriptionChange", text,
                  [formState EXCEPT !.productDescription = text])

\* onChange of the style select
HandleStyleChange(style) ==
    FormChange("styleChange", style, [formState EXCEPT !.style = style])

\* onChange of the aspect-ratio select
HandleAspectRatioChange(aspectRatio) ==
    FormChange("aspectRatioChange", aspectRatio,
               [formState EXCEPT !.aspectRatio = aspectRatio])

\* handleModelImageChange: a file chosen in the uploader, or the image
\* removed (null)
HandleModelImageChange(file) ==
    FormChange("modelImageChange", file, [formState EXCEPT !.modelImage = file])

\* a click on the submit button that the form's validation stops: no submit
\* event is dispatched, handleGenerate does not run
SubmitBlocked ==
    /\ Rendered
    /\ ~SubmitDisabled(isLoading)
    /\ ~SubmitValid(formState)
    /\ nUser < MaxUserActions
    /\ nUser' = nUser + 1
    /\ ev' = Event("submitBlocked", NoId, 0, FALSE, None, None, None)
    /\ UNCHANGED <<formState, images, isLoading, error, lastUsedFormState, batch,
                   regenCalls, videoCalls, nBatch, submittedForms>>
    /\ UNCHANGED <<apiKey, reloading, isApiKeyModalOpen, isDescriptionLoading,
                   descCalls>>
    /\ Render(TRUE)

\* The batch pipeline with its user: submits, planning and image synthesis
\* with every outcome, the delay, history views, deletions from the history
\* and regenerations (the panel's style select, the prompt left as it is).
Next ==
    \/ HandleGenerate
    \/ GeneratePosesRejects
    \/ \E poses \in PoseLists : GeneratePosesResolves(poses)
    \/ \E i \in 1..MaxPoses : GenerateImageResolves(i)
    \/ \E i \in 1..MaxPoses, m \in Reasons : GenerateImageRejects(i, m)
    \/ DelayElapses
    \/ \E e \in HistoryEntries : HandleViewHistoryItem(e)
    \/ \E id \in ShownIds, s \in Styles :
          HandleRegenerate(id, s, images[FindImage(images, id)].prompt)
    \/ \E c \in BagToSet(regenCalls) : RegeneratePhotoResolves(c)
    \/ \E c \in BagToSet(regenCalls), m \in Reasons : RegeneratePhotoRejects(c, m)
    \/ RenderTask(TRUE)
    \/ \E e \in HistoryEntries : RemoveFromHistory(e.id, TRUE)
    \/ ClearHistory(TRUE)

Spec == Init /\ [][Next]_vars

\* The operations on single items: one batch without delay whose planning and
\* image synthesis succeed, and regenerations with every style and prompt of the
\* panel and video generation with every outcome of the gateway.
NextItem ==
    \/ nBatch = 0 /\ HandleGenerate
    \/ \E poses \in PoseLists \ {<<>>} : GeneratePosesResolves(poses)
    \/ \E i \in 1..MaxPoses : GenerateImageResolves(i)
    \/ \E id \in ShownIds, s \in Styles :
          \E p \in PanelPrompts(id) : HandleRegenerate(id, s, p)
    \/ \E c \in BagToSet(regenCalls) : RegeneratePhotoResolves(c)
    \/ \E c \in BagToSet(regenCalls), m \in Reasons : RegeneratePhotoRejects(c, m)
    \/ \E id \in ShownIds : HandleVideoAction(id)
    \/ \E c \in BagToSet(videoCalls), op \in OperationStates :
          VideoOperationResolves(c, op)
    \/ \E c \in BagToSet(videoCalls) : VideoSleepElapses(c)
    \/ \E c \in BagToSet(videoCalls), ok \in BOOLEAN : VideoFetchResolves(c, ok)
    \/ \E c \in BagToSet(videoCalls) : VideoBlobResolves(c)
    \/ \E c \in BagToSet(videoCalls) : VideoReadEnds(c)
    \/ \E c \in BagToSet(videoCalls) : VideoReadFails(c)
    \/ \E c \in BagToSet(videoCalls), m \in VideoReasons : VideoCallRejects(c, m)
    \/ RenderTask(TRUE)

InitItem == InitWith({0})

SpecItem == InitItem /\ [][NextItem]_vars

\* The handlers as the functions handed to the gallery, called for any item
\* of the list whatever its card renders: one batch without delay, image
\* synthesis with both outcomes, video and regenerate calls (the style
\* changed, the prompt left as it is) on items in every state.
CallVideoAction(imageId) ==
    /\ nUser < MaxUserActions
    /\ VideoAction(imageId)

CallRegenerate(imageId, newStyle) ==
    /\ nUser < MaxUserActions
    /\ Regenerate(imageId, newStyle, images[FindImage(images, imageId)].prompt)

NextCall ==
    \/ nBatch = 0 /\ HandleGenerate
    \/ \E poses \in PoseLists \ {<<>>} : GeneratePosesResolves(poses)
    \/ \E i \in 1..MaxPoses : GenerateImageResolves(i)
    \/ \E i \in 1..MaxPoses, m \in Reasons : GenerateImageRejects(i, m)
    \/ \E id \in ShownIds : CallVideoAction(id)
    \/ \E id \in ShownIds, s \in Styles : CallRegenerate(id, s)
    \/ \E c \in BagToSet(regenCalls) : RegeneratePhotoResolves(c)
    \/ \E c \in BagToSet(videoCalls), op \in OperationStates :
          VideoOperationResolves(c, op)
    \/ \E c \in BagToSet(videoCalls) : VideoSleepElapses(c)
    \/ \E c \in BagToSet(videoCalls), ok \in BOOLEAN : VideoFetchResolves(c, ok)
    \/ \E c \in BagToSet(videoCalls) : VideoBlobResolves(c)
    \/ \E c \in BagToSet(videoCalls) : VideoReadEnds(c)
    \/ \E c \in BagToSet(videoCalls) : VideoReadFails(c)
    \/ \E c \in BagToSet(videoCalls), m \in VideoReasons : VideoCallRejects(c, m)
    \/ RenderTask(TRUE)

SpecCall == InitItem /\ [][NextCall]_vars

\* A session that reopens its own archive: one batch without delay whose
\* planning and image synthesis succeed, history views, and regenerate clicks
\* (the style changed, the prompt left as it is) on the cards that show the
\* panel, one click more than the other specifications explore.
ReplayRegenerate(imageId, newStyle) ==
    LET k == FindImage(images, imageId) IN
    /\ k # 0
    /\ PanelShown(images[k])
    /\ nUser <= MaxUserActions
    /\ Regenerate(imageId, newStyle, images[k].prompt)

NextReplay ==
    \/ nBatch = 0 /\ HandleGenerate
    \/ \E poses \in PoseLists \ {<<>>} : GeneratePosesResolves(poses)
    \/ \E i \in 1..MaxPoses : GenerateImageResolves(i)
    \/ \E e \in HistoryEntries : HandleViewHistoryItem(e)
    \/ \E id \in ShownIds, s \in Styles : ReplayRegenerate(id, s)
    \/ \E c \in BagToSet(regenCalls) : RegeneratePhotoResolves(c)
    \/ RenderTask(TRUE)

SpecReplay == InitItem /\ [][NextReplay]_vars

\* A session with overlapping jobs: one batch without delay whose planning and
\* image synthesis succeed, history views, and regenerate clicks (the style
\* changed, the prompt left as it is) and video clicks on the cards that show
\* the panel, one click more than the other specifications explore, with
\* every outcome of the video job.
JobsVideoAction(imageId) ==
    LET k == FindImage(images, imageId) IN
    /\ k # 0
    /\ PanelShown(images[k])
    /\ VideoButtonEnabled(images[k])
    /\ nUser <= MaxUserActions
    /\ VideoAction(imageId)

NextJobs ==
    \/ nBatch = 0 /\ HandleGenerate
    \/ \E poses \in PoseLists \ {<<>>} : GeneratePosesResolves(poses)
    \/ \E i \in 1..MaxPoses : GenerateImageResolves(i)
    \/ \E e \in HistoryEntries : HandleViewHistoryItem(e)
    \/ \E id \in ShownIds, s \in Styles : ReplayRegenerate(id, s)
    \/ \E c \in BagToSet(regenCalls) : RegeneratePhotoResolves(c)
    \/ \E id \in ShownIds : JobsVideoAction(id)
    \/ \E c \in BagToSet(videoCalls), op \in OperationStates :
          VideoOperationResolves(c, op)
    \/ \E c \in BagToSet(videoCalls) : VideoSleepElapses(c)
    \/ \E c \in BagToSet(videoCalls), ok \in BOOLEAN : VideoFetchResolves(c, ok)
    \/ \E c \in BagToSet(videoCalls) : VideoBlobResolves(c)
    \/ \E c \in BagToSet(videoCalls) : VideoReadEnds(c)
    \/ \E c \in BagToSet(videoCalls) : VideoReadFails(c)
    \/ \E c \in BagToSet(videoCalls), m \in VideoReasons : VideoCallRejects(c, m)
    \/ RenderTask(TRUE)

SpecJobs == InitItem /\ [][NextJobs]_vars

\* One batch under its scheduling assumptions: the submit and history views
\* of the user, planning and image synthesis with every outcome, the delay;
\* every awaited gateway call eventually resolves or rejects and the delay's
\* timer eventually fires.
GatewayReturns ==
    \/ GeneratePosesRejects
    \/ \E poses \in PoseLists : GeneratePosesResolves(poses)
    \/ \E i \in 1..MaxPoses : GenerateImageResolves(i)
    \/ \E i \in 1..MaxPoses, m \in Reasons : GenerateImageRejects(i, m)

NextLive ==
    \/ nBatch = 0 /\ HandleGenerate
    \/ GatewayReturns
    \/ DelayElapses
    \/ \E e \in HistoryEntries : HandleViewHistoryItem(e)
    \/ RenderTask(TRUE)

SpecLive ==
    Init /\ [][NextLive]_vars /\ WF_vars(GatewayReturns) /\ WF_vars(DelayElapses)

\* The form: the texts typed into the count and delay fields, a description
\* typed, a style and an aspect ratio selected, product and model photos
\* chosen and removed, the description requested with both outcomes, submits
\* that the validation stops, and one batch with every outcome of planning
\* and image synthesis, suspended between its items when the delay is
\* positive.
CountTexts == {"", "0", "2", "11"}

NextForm ==
    \/ \E t \in CountTexts : HandleCountChange(t)
    \/ \E t \in {"", "5"} : HandleDelayChange(t)
    \/ HandleDescriptionChange("a red shoe")
    \/ HandleStyleChange("vintage")
    \/ HandleAspectRatioChange("1:1")
    \/ \E f \in {"model photo", None} : HandleModelImageChange(f)
    \/ DelayElapses
    \/ \E f \in ProductFiles \cup {None} : HandleProductImageChange(f)
    \/ HandleGenerateDescription
    \/ \E c \in BagToSet(descCalls) : GenerateDescriptionResolves(c)
    \/ \E c \in BagToSet(descCalls) :
          GenerateDescriptionRejects(c, DescribeFailure)
    \/ SubmitBlocked
    \/ nBatch = 0 /\ HandleGenerate
    \/ GeneratePosesRejects
    \/ \E poses \in PoseLists : GeneratePosesResolves(poses)
    \/ \E i \in 1..MaxPoses : GenerateImageResolves(i)
    \/ \E i \in 1..MaxPoses, m \in Reasons : GenerateImageRejects(i, m)
    \/ RenderTask(TRUE)

SpecForm == InitItem /\ [][NextForm]_vars

\* The prompts of the synthesis requests: forms with and without reference
\* images and description, every style of the select and a style that is not
\* one of them, two aspect ratios; one batch without delay whose planning and
\* image synthesis succeed, and regenerations with an edited prompt in the
\* cinematic style.
UploadedModel == "model photo"
DescriptionText == "a leather bag"
UnknownStyle == "neon"

PromptForms ==
    {[DefaultForm(MaxPoses, 0) EXCEPT !.productImage = p, !.modelImage = m,
                                      !.productDescription = d, !.style = st,
                                      !.aspectRatio = ar] :
        p \in {None, UploadedProduct}, m \in {None, UploadedModel},
        d \in {"", DescriptionText}, st \in KnownStyles \cup {UnknownStyle},
        ar \in {"9:16", "1:1"}}

NextPrompt ==
    \/ nBatch = 0 /\ HandleGenerate
    \/ \E poses \in PoseLists \ {<<>>} : GeneratePosesResolves(poses)
    \/ \E i \in 1..MaxPoses : GenerateImageResolves(i)
    \/ \E id \in ShownIds : HandleRegenerate(id, "cinematic", EditedPrompt)
    \/ \E c \in BagToSet(regenCalls) : RegeneratePhotoResolves(c)
    \/ RenderTask(TRUE)

SpecPrompt == InitFrom(PromptForms) /\ [][NextPrompt]_vars

\* Sessions with and without an API key: the key is missing from the start
\* (the modal is open) or is removed later, and a key is saved in the modal,
\* which reloads the page; one batch per page load, history views,
\* regenerate, video and describe requests; the gateway's calls succeed, and
\* the calls made without a key are rejected by getAiClient, their
\* continuation running before any other event.
InitKey == \E key \in BOOLEAN : InitSession({DefaultForm(MaxPoses, 0)}, key)

NextKey ==
    \/ NoThrowPending /\ KeyRemoved
    \/ NoThrowPending /\ batch.pc = "idle" /\ HandleGenerate
    \/ \E poses \in PoseLists \ {<<>>} :
          NoThrowPending /\ GeneratePosesResolves(poses)
    \/ \E i \in 1..MaxPoses : NoThrowPending /\ GenerateImageResolves(i)
    \/ \E e \in HistoryEntries : NoThrowPending /\ HandleViewHistoryItem(e)
    \/ \E id \in ShownIds :
          /\ NoThrowPending
          /\ HandleRegenerate(id, "cinematic",
                              images[FindImage(images, id)].prompt)
    \/ \E c \in BagToSet(regenCalls) :
          NoThrowPending /\ RegeneratePhotoResolves(c)
    \/ \E id \in ShownIds : NoThrowPending /\ HandleVideoAction(id)
    \/ \E c \in BagToSet(videoCalls) :
          NoThrowPending /\ VideoOperationResolves(c, "done")
    \/ \E c \in BagToSet(videoCalls) :
          NoThrowPending /\ VideoFetchResolves(c, TRUE)
    \/ \E c \in BagToSet(videoCalls) : NoThrowPending /\ VideoBlobResolves(c)
    \/ \E c \in BagToSet(videoCalls) : NoThrowPending /\ VideoReadEnds(c)
    \/ \E saved \in BOOLEAN : NoThrowPending /\ RenderTask(saved)
    \/ NoThrowPending /\ DelayElapses
    \/ \E stored \in BOOLEAN : NoThrowPending /\ HandleApiKeySave(stored)
    \/ NoThrowPending /\ PageLoads
    \/ NoThrowPending /\ HandleProductImageChange(UploadedProduct)
    \/ NoThrowPending /\ HandleGenerateDescription
    \/ \E c \in BagToSet(descCalls) :
          NoThrowPending /\ GenerateDescriptionResolves(c)
    \/ GeneratePosesThrows
    \/ \E i \in 1..MaxPoses : GenerateImageRejects(i, KeyMissing)
    \/ \E c \in BagToSet(regenCalls) : RegeneratePhotoRejects(c, KeyMissing)
    \/ \E c \in BagToSet(videoCalls) : VideoCallRejects(c, KeyMissing)
    \/ \E c \in BagToSet(descCalls) : GenerateDescriptionRejects(c, KeyMissing)

SpecKey == InitKey /\ [][NextKey]_vars

\* ============================================================ properties
\* helpers of the properties
Terminal(img) == img.status \in {"success", "error"}
Started(b) == {b.started[k] : k \in 1..Len(b.started)}
BatchRan == batch.pc # "idle"

\* the step that made generatePhotos return: the last callback of the loop
BatchJustCompleted == batch.pc = "done" /\ ev.op = "generateImage"

\* the step in which the planning call failed (rejected, or zero poses)
PlanningJustFailed == ev.op = "generatePoses" /\ ~ev.ok

\* the render whose history effect appended an entry
JustArchived == ev.op = "render" /\ ev.ok

\* C1: when a batch whose planning returned the N requested poses completes
\* (isLoading back to false), the list holds exactly N items, each Success or
\* Error, whatever regenerate or view-history actions were interleaved.
C1_CompletedBatchHasNTerminalItems ==
    (BatchJustCompleted
        /\ Num(Len(batch.poseTasks)) = batch.formState.numberOfImages)
    => /\ ~isLoading
       /\ Num(Len(images)) = batch.formState.numberOfImages
       /\ \A i \in 1..Len(images) : Terminal(images[i])

\* C2: the main pipeline starts the synthesis of pose i+1 only after the
\* callback of pose i ran (its item moved to Success or Error), in planned
\* order, with at most one synthesis call in flight.
C2_OneCallInFlightInOrder ==
    /\ Cardinality(batch.calls) <= 1
    /\ batch.calls \subseteq Started(batch)
    /\ \A k \in 1..Len(batch.started) : batch.started[k] = k
    /\ \A i \in Started(batch) : \A j \in 1..(i - 1) : j \in batch.done
    /\ batch.done \subseteq Started(batch)
    /\ (ev.op = "generateImage" /\ ev.index <= Len(images))
       => Terminal(images[ev.index])

C2_SecondCallAfterFirstDone ==
    /\ batch.pc = "generating"
    /\ batch.calls = {2}
    /\ batch.done = {1}
    /\ Terminal(images[1])
    /\ images[2].status = "loading"

\* C3: a failed synthesis of item i marks that item Error with the gateway's
\* reason, the loop goes on to the later items, and the failure changes no
\* other item.
C3_FailureIsIsolated ==
    [][(ev'.op = "generateImage" /\ ~ev'.ok)
       => /\ Len(images') = Len(images)
          /\ \A j \in 1..Len(images) :
                IF j = ev'.index
                THEN /\ images'[j].status = "error"
                     /\ images'[j].error = ev'.a
                ELSE images'[j] = images[j]
          /\ batch'.pc # "failed"
          /\ ev'.index < Len(batch.poseTasks)
             => batch'.pc \in {"generating", "delay"}
          /\ batch'.pc = "generating" => batch'.calls = {ev'.index + 1}
          /\ batch'.pc = "done"
             => batch'.done = 1..Len(batch.poseTasks)]_vars

C3_FirstFailedSecondSucceeded ==
    /\ BatchJustCompleted
    /\ Len(images) = 2
    /\ images[1].id = ItemId(nBatch, 1)
    /\ images[2].id = ItemId(nBatch, 2)
    /\ images[1].status = "error"
    /\ images[1].error \in Reasons
    /\ images[2].status = "success"

\* C4: when planning fails the item list is empty once the handler has
\* returned, no synthesis call was made and an error is reported.
C4_PlanningFailureLeavesListEmpty ==
    PlanningJustFailed
    => /\ images = <<>>
       /\ batch.started = <<>>
       /\ error # NoError

\* C5: when planning returns no pose or fails, nothing is appended to the
\* history store.
C5_PlanningFailureAppendsNothing ==
    batch.pc = "failed" => nAppend = batch.appendBase

\* C6: per completed batch the history append runs exactly once, in the
\* render that follows the completion and never while isLoading is true, and
\* no later change of the items (regeneration) runs it again.
C6_AppendOncePerCompletedBatch ==
    /\ isLoading => nAppend = batch.appendBase
    /\ batch.pc = "done"
       => nAppend = batch.appendBase + (IF Rendered THEN 1 ELSE 0)
    /\ JustArchived => ~isLoading

C6_RegeneratedAfterCompletion ==
    /\ batch.pc = "done"
    /\ ev.op = "regeneratePhoto"
    /\ nAppend = batch.appendBase + 1

\* C7: with delay D > 0 and N planned poses generatePhotos suspends exactly
\* N-1 times, each after the callback of an item i < N and before the call of
\* item i+1; never before the first or after the last item; with D = 0 never.
C7_SuspensionsBetweenItems ==
    BatchRan =>
        LET n == Len(batch.poseTasks)
            d == batch.formState.delay
        IN  /\ batch.pc = "delay"
               => /\ Positive(d)
                  /\ batch.index < n
                  /\ batch.index \in batch.done
                  /\ batch.calls = {}
                  /\ (batch.index + 1) \notin Started(batch)
                  /\ batch.slept[Len(batch.slept)] = batch.index
            /\ \A k \in 1..Len(batch.slept) : batch.slept[k] = k /\ k < n
            /\ batch.pc = "done"
               => Len(batch.slept) = IF Positive(d) THEN n - 1 ELSE 0
            /\ d = Num(0) => batch.slept = <<>>

C7_OneSuspensionForTwoPoses ==
    /\ batch.pc = "done"
    /\ Positive(batch.formState.delay)
    /\ Len(batch.poseTasks) = 2
    /\ batch.slept = <<1>>

\* the item a regenerate click was made on, before the handler ran
Clicked(imgs, e) == imgs[FindImage(imgs, e.id)]

\* a regenerate click with stored parameters whose style or prompt differs
EffectiveRegenerate ==
    /\ ev'.op = "handleRegenerate"
    /\ lastUsedFormState # NullForm
    /\ \/ ev'.a # Clicked(images, ev').style
       \/ ev'.b # Clicked(images, ev').prompt

\* C8: a regenerate request carrying the item's current style and prompt
\* changes no field of any item and makes no gateway call.
C8_SameStyleAndPromptIsNoOp ==
    [][(/\ ev'.op = "handleRegenerate"
        /\ ev'.a = Clicked(images, ev').style
        /\ ev'.b = Clicked(images, ev').prompt)
       => UNCHANGED <<images, regenCalls, videoCalls>>]_vars

C8_NoOpRequestMade ==
    /\ ev.op = "handleRegenerate"
    /\ lastUsedFormState # NullForm
    /\ Clicked(images, ev).status = "success"
    /\ Clicked(images, ev).style = ev.a
    /\ Clicked(images, ev).prompt = ev.b
    /\ regenCalls = EmptyBag

\* C9: an effective regeneration at once sets the item's videoStatus to idle
\* and clears its video result and video error, whatever the videoStatus was
\* before (success and loading included), and changes no other item.
C9_RegenerationResetsVideo ==
    [][EffectiveRegenerate
       => /\ Len(images') = Len(images)
          /\ \A j \in 1..Len(images) :
                IF images[j].id = ev'.id
                THEN /\ images'[j].status = "loading"
                     /\ images'[j].videoStatus = "idle"
                     /\ images'[j].videoSrc = NoVideo
                     /\ images'[j].videoError = None
                ELSE images'[j] = images[j]]_vars

C9_ResetFromVideoSuccess ==
    /\ ev.op = "handleRegenerate"
    /\ ev.was = "success"
    /\ Clicked(images, ev).status = "loading"
    /\ Clicked(images, ev).videoStatus = "idle"
    /\ Clicked(images, ev).videoSrc = NoVideo

\* C10: after a regeneration no video made from the previous photo is
\* recorded on the item: while the new photo is pending the videoStatus stays
\* idle, and a recorded video is the video of the item's current photo.
C10_NoVideoOfPreviousPhoto ==
    \A i \in 1..Len(images) :
        /\ images[i].status = "loading" => images[i].videoStatus = "idle"
        /\ images[i].videoStatus = "success"
           => images[i].videoSrc = VideoOf(images[i].src)

\* the generateVideos calls a step starts
NewSubmits ==
    {c \in BagToSet(videoCalls') :
        c.stage = "submit" /\ CopiesIn(c, videoCalls') > CopiesIn(c, videoCalls)}

\* the calls of generateVideoFromImage in progress for an item
VideoCallsOf(imageId) == {c \in BagToSet(videoCalls) : c.id = imageId}

\* C11: a video request on an item whose videoStatus is loading submits no
\* second job: it changes nothing; a job is submitted only by a request that
\* moves the item into loading, and every entry into loading submits one job.
C11_OneSubmitPerLoadingEpisode ==
    [][/\ (ev'.op = "handleVideoAction" /\ ev'.a = "loading")
          => UNCHANGED <<images, videoCalls>>
       /\ \A c \in NewSubmits :
             /\ ev'.op = "handleVideoAction"
             /\ ev'.id = c.id
             /\ ev'.a # "loading"
             /\ Clicked(images', ev').videoStatus = "loading"
             /\ NewSubmits = {c}
             /\ CopiesIn(c, videoCalls') = CopiesIn(c, videoCalls) + 1
       /\ \A k \in 1..Len(images) :
             (/\ Len(images') = Len(images)
              /\ images'[k].id = images[k].id
              /\ images[k].videoStatus # "loading"
              /\ images'[k].videoStatus = "loading")
             => \E c \in NewSubmits : c.id = images[k].id]_vars

C11_RequestWhileLoading ==
    /\ ev.op = "handleVideoAction"
    /\ ev.a = "loading"
    /\ Clicked(images, ev).videoStatus = "loading"
    /\ \E c \in VideoCallsOf(ev.id) :
          /\ VideoCallsOf(ev.id) = {c}
          /\ CopiesIn(c, videoCalls) = 1

\* C12: a video request on an item whose photo is loading or in error makes
\* no gateway call and leaves every item, its video fields included, as it
\* was.
C12_NoVideoWithoutPhoto ==
    [][(ev'.op = "handleVideoAction" /\ ev'.b \in {"loading", "error"})
       => UNCHANGED <<images, videoCalls, regenCalls>>]_vars

C12_RequestOnFailedPhoto ==
    /\ ev.op = "handleVideoAction"
    /\ ev.b = "error"
    /\ Clicked(images, ev).status = "error"
    /\ Clicked(images, ev).videoStatus = "idle"
    /\ videoCalls = EmptyBag

\* the calls of generateVideoFromImage that a step moves to a stage
NewAtStage(stage) ==
    {c \in BagToSet(videoCalls') :
        c.stage = stage /\ CopiesIn(c, videoCalls') > CopiesIn(c, videoCalls)}

\* C13: a video job is submitted by the request, polled only after a
\* suspension that follows a pending answer, and fetched only after an answer
\* done with a reference; the body is read only after the fetch succeeded
\* and converted only after it was read; pending answers, suspensions and
\* the steps of the download leave the item as it is (loading), and
\* videoStatus becomes success, with the fetched content, only when the
\* conversion of the fetched body ends.
C13_VideoJobProtocol ==
    [][/\ NewAtStage("submit") # {} => ev'.op = "handleVideoAction"
       /\ NewAtStage("sleep") # {}
          => ev'.op = "videoOperation" /\ ev'.b = "pending"
       /\ NewAtStage("poll") # {} => ev'.op = "videoSleep"
       /\ NewAtStage("fetch") # {}
          => ev'.op = "videoOperation" /\ ev'.b = "done"
       /\ NewAtStage("blob") # {} => ev'.op = "videoFetch" /\ ev'.ok
       /\ NewAtStage("read") # {} => ev'.op = "videoBlob"
       /\ (\/ ev'.op \in {"videoSleep", "videoBlob"}
           \/ (ev'.op = "videoOperation" /\ ev'.b \in {"pending", "done"})
           \/ (ev'.op = "videoFetch" /\ ev'.ok))
          => images' = images
       /\ \A k \in 1..Len(images) :
             (/\ Len(images') = Len(images)
              /\ images'[k].id = images[k].id
              /\ images[k].videoStatus # "success"
              /\ images'[k].videoStatus = "success")
             => /\ ev'.op = "videoRead"
                /\ ev'.id = images[k].id
                /\ images'[k].videoSrc = VideoOf(ev'.a)]_vars

C13_VideoStoredAfterDownload ==
    /\ ev.op = "videoRead"
    /\ Clicked(images, ev).status = "success"
    /\ Clicked(images, ev).videoStatus = "success"
    /\ Clicked(images, ev).videoSrc = VideoOf(Clicked(images, ev).src)
    /\ VideoCallsOf(ev.id) = {}

\* a step in which a job of generateVideoFromImage failed, and its reason
VideoJobFailed(e) ==
    \/ e.op = "videoRejected"
    \/ e.op = "videoOperation" /\ e.b = "nouri"
    \/ e.op = "videoFetch" /\ ~e.ok
FailureReason(e) ==
    IF e.op = "videoRejected" THEN e.b
    ELSE IF e.op = "videoOperation" THEN NoUri
    ELSE DownloadFailed

\* C14: when the submission, a poll, the finished operation (no reference) or
\* the fetch fails, the item gets videoStatus error with the reason, the
\* failed job ends without a further submit or poll, and a job is submitted
\* again only by a video request of the user.
C14_VideoFailureIsFinal ==
    [][/\ VideoJobFailed(ev')
          => /\ Len(images') = Len(images)
             /\ \A k \in 1..Len(images) :
                   IF images[k].id = ev'.id
                   THEN /\ images'[k].videoStatus = "error"
                        /\ images'[k].videoError = FailureReason(ev')
                   ELSE images'[k] = images[k]
             /\ error' = <<"Failed to generate video", FailureReason(ev')>>
             /\ videoCalls' \sqsubseteq videoCalls
             /\ BagCardinality(videoCalls') = BagCardinality(videoCalls) - 1
       /\ NewAtStage("submit") # {}
          => ev'.op = "handleVideoAction" /\ ev'.a # "loading"]_vars

C14_PolledOperationWithoutVideo ==
    /\ ev.op = "videoOperation"
    /\ ev.a = "poll"
    /\ ev.b = "nouri"
    /\ Clicked(images, ev).videoStatus = "error"
    /\ Clicked(images, ev).videoError = NoUri
    /\ VideoCallsOf(ev.id) = {}

\* C15: a completion callback (photo result of the batch, regeneration
\* result, video result) whose item is not in the current list, the list
\* having been replaced, changes no item of the current list.
C15_StaleCallbackChangesNothing ==
    [][/\ (ev'.op = "generateImage"
           /\ ItemId(nBatch, ev'.index) \notin ShownIds)
          => images' = images
       /\ (ev'.op \in {"regeneratePhoto", "videoOperation", "videoFetch",
                       "videoBlob", "videoRead", "videoRejected"}
           /\ ev'.id \notin ShownIds)
          => images' = images]_vars

\* C16: at most one regeneration is in flight per item at any time.
C16_OneRegenerationPerItem ==
    \A c \in BagToSet(regenCalls) :
        /\ CopiesIn(c, regenCalls) = 1
        /\ \A d \in BagToSet(regenCalls) : d.id = c.id => d = c

\* C17: no item has both a photo result and a photo error; a photo result is
\* present only with status success, a photo error only with status error.
C17_PhotoResultXorError ==
    \A i \in 1..Len(images) :
        /\ ~(images[i].src # NoSrc /\ images[i].error # None)
        /\ images[i].src # NoSrc => images[i].status = "success"
        /\ images[i].error # None => images[i].status = "error"

\* C18: when planning succeeded there are as many items as planned poses and
\* item k carries pose k; afterwards no photo result, regeneration or video
\* step adds, removes or reorders items.
C18_ItemsFollowPlannedPoses ==
    [][/\ (ev'.op = "generatePoses" /\ ev'.ok)
          => /\ Len(images') = Len(batch'.poseTasks)
             /\ Len(images') = ev'.b
             /\ \A k \in 1..Len(images') :
                   /\ images'[k].prompt = batch'.poseTasks[k]
                   /\ images'[k].id = ItemId(nBatch, k)
       /\ ev'.op \notin {"handleGenerate", "generatePoses",
                         "handleViewHistoryItem"}
          => /\ Len(images') = Len(images)
             /\ \A k \in 1..Len(images) : images'[k].id = images[k].id]_vars

C18_TwoItemsAfterRegeneration ==
    /\ ev.op = "regeneratePhoto"
    /\ Len(batch.poseTasks) = 2
    /\ Len(images) = 2
    /\ \A k \in 1..2 : images[k].id = ItemId(nBatch, k)

\* C19: the entry appended when a batch completes holds the parameters
\* captured at the start of the batch and the final items: each archived
\* item is success or error, as the pipeline recorded it.
C19_ArchivedItemsAreFinal ==
    (JustArchived /\ batch.pc = "done")
    => /\ nAppend = batch.appendBase + 1
       /\ history[1].formState = batch.formState
       /\ history[1].images = images
       /\ \A k \in 1..Len(history[1].images) : Terminal(history[1].images[k])

\* C20: an item's videoStatus leaves idle only in a state where the item's
\* photo status is success.
C20_VideoLeavesIdleOnSuccessPhoto ==
    [][\A k \in 1..Len(images) :
          (/\ Len(images') = Len(images)
           /\ images'[k].id = images[k].id
           /\ images[k].videoStatus = "idle"
           /\ images'[k].videoStatus # "idle")
          => images[k].status = "success"]_vars

\* C21: at any time at most one video job (submitted, not yet settled) exists
\* per item, under every interleaving of video requests and regenerations.
C21_OneVideoJobPerItem ==
    \A c \in BagToSet(videoCalls) :
        /\ CopiesIn(c, videoCalls) = 1
        /\ \A d \in BagToSet(videoCalls) : d.id = c.id => d = c

\* a video request on a success photo whose videoStatus was `was`
VideoRequestFrom(was) ==
    /\ ev'.op = "handleVideoAction"
    /\ ev'.b = "success"
    /\ ev'.a = was

\* the request started a job: videoStatus is loading and generateVideos is
\* called for the item's photo
FreshJobStarted ==
    /\ Clicked(images', ev').videoStatus = "loading"
    /\ \E c \in NewSubmits : c.id = ev'.id /\ c.src = Clicked(images, ev').src

\* C22 (as stated): a video request on an item whose videoStatus is success,
\* and likewise one whose videoStatus is error, starts a fresh job.
C22_FreshJobFromSuccessOrError ==
    [][(VideoRequestFrom("success") \/ VideoRequestFrom("error"))
       => FreshJobStarted]_vars

\* C22 (amended): a video request on an item whose videoStatus is error
\* starts a fresh job, the video error cleared; a request on an item whose
\* videoStatus is success with a stored video starts no job and changes no
\* item (the stored video is opened in the viewer).
C22_FreshJobFromErrorOnly ==
    [][/\ VideoRequestFrom("error")
          => /\ FreshJobStarted
             /\ Clicked(images', ev').videoError = None
       /\ (VideoRequestFrom("success")
           /\ Clicked(images, ev').videoSrc # NoVideo)
          => UNCHANGED <<images, videoCalls>>]_vars

C22_RetryAfterError ==
    /\ ev.op = "handleVideoAction"
    /\ ev.a = "error"
    /\ Clicked(images, ev).videoStatus = "loading"
    /\ Clicked(images, ev).videoError = None
    /\ \E c \in VideoCallsOf(ev.id) : c.stage = "submit"

\* C23: once the item of a video job is no longer in the list (the list was
\* replaced), no further poll or fetch is issued for that job.
C23_SupersededJobStops ==
    [][\A c \in NewAtStage("poll") \cup NewAtStage("fetch") :
          c.id \in ShownIds]_vars

\* the regeneratePhoto calls in flight for an item
RegenCallsOf(calls, imageId) == {c \in BagToSet(calls) : c.id = imageId}

\* C24: an effective regeneration puts the item in status loading with the
\* new style and prompt and calls the gateway once; the returning call finds
\* the item loading and ends it in success with the new image or in error
\* with the reason; an item left loading by a regeneration has its call in
\* flight, so it does not stay loading once the gateway returns.
C24_RegenerationSettles ==
    [][/\ EffectiveRegenerate
          => /\ Clicked(images', ev').status = "loading"
             /\ Clicked(images', ev').style = ev'.a
             /\ Clicked(images', ev').prompt = ev'.b
             /\ regenCalls' = regenCalls (+) SetToBag({
                    RegenerateCall(ev'.id, lastUsedFormState, ev'.a, ev'.b)})
       /\ (ev'.op = "regeneratePhoto" /\ ev'.id \in ShownIds)
          => /\ Clicked(images, ev').status = "loading"
             /\ RegenCallsOf(regenCalls', ev'.id) = {}
             /\ IF ev'.ok
                THEN /\ Clicked(images', ev').status = "success"
                     /\ Clicked(images', ev').src =
                            ImageFor(Clicked(images, ev').prompt,
                                     Clicked(images, ev').style)
                ELSE /\ Clicked(images', ev').status = "error"
                     /\ Clicked(images', ev').error = ev'.a
       /\ \A k \in 1..Len(images') :
             (images'[k].status = "loading" /\ k \in batch'.done)
             => RegenCallsOf(regenCalls', images'[k].id) # {}]_vars

C24_RegenerationFailed ==
    /\ ev.op = "regeneratePhoto"
    /\ ~ev.ok
    /\ Clicked(images, ev).status = "error"
    /\ Clicked(images, ev).error = ev.a
    /\ Clicked(images, ev).style = "cinematic"
    /\ RegenCallsOf(regenCalls, ev.id) = {}

\* C25: every step of a regeneration (the request, the result, the failure)
\* leaves all fields of every other item as they were and keeps the list's
\* length.
C25_RegenerationTouchesOneItem ==
    [][ev'.op \in {"handleRegenerate", "regeneratePhoto"}
       => /\ Len(images') = Len(images)
          /\ \A j \in 1..Len(images) :
                images[j].id # ev'.id => images'[j] = images[j]]_vars

C25_OtherItemKeptAfterFailure ==
    /\ ev.op = "regeneratePhoto"
    /\ ~ev.ok
    /\ Len(images) = 2
    /\ \E j \in 1..2 :
          /\ images[j].id # ev.id
          /\ images[j].status = "success"
          /\ images[j].error = None

\* the parameters of the batch that produced an item, whose number the
\* item's id starts with: the form that batch was submitted with, the stored
\* entry's form for an item of the earlier session
ProducingForm(imageId) ==
    IF imageId[1] = 0 THEN PriorEntry.formState
    ELSE submittedForms[imageId[1]]

\* C26: a regeneration calls image synthesis with the product and model
\* images of the batch that produced the item, also for an item shown from a
\* viewed history entry after another batch has run.
C26_RegenerationUsesItsBatchImages ==
    \A c \in BagToSet(regenCalls) :
        LET fs == ProducingForm(c.id) IN
        /\ c.formState.productImage = fs.productImage
        /\ c.formState.modelImage = fs.modelImage

\* C27: the parameters of a batch are the form as it was at the submit: a
\* later edit of the form changes neither the prompt built for a later item,
\* nor the delay the loop uses, nor the parameters kept for regeneration,
\* nor the parameters archived.
C27_BatchParametersAreSnapshot ==
    BatchRan
    => /\ lastUsedFormState = batch.formState
       /\ batch.started # <<>>
          => batch.text = ConstructPrompt(batch.formState,
                                          batch.poseTasks[batch.index])
       /\ batch.pc = "delay" => Positive(batch.formState.delay)
       /\ batch.pc = "done"
          => Len(batch.slept) = IF Positive(batch.formState.delay)
                                THEN Len(batch.poseTasks) - 1 ELSE 0
       /\ JustArchived => history[1].formState = batch.formState

C27_FormChangedDuringBatch ==
    /\ JustArchived
    /\ batch.pc = "done"
    /\ Positive(batch.formState.delay)
    /\ batch.slept = <<1>>
    /\ formState.delay # batch.formState.delay
    /\ formState # batch.formState
    /\ lastUsedFormState = batch.formState
    /\ history[1].formState = batch.formState

\* C28: an item's photo status moves only from loading to success or error
\* and, by a regeneration request, from success or error to loading; it never
\* moves between success and error directly, and a settled item receives no
\* second result.
C28_PhotoStatusOrder ==
    [][(/\ ev'.op \notin {"handleGenerate", "handleViewHistoryItem"}
        /\ ~(ev'.op = "generatePoses" /\ ev'.ok))
       => /\ Len(images') = Len(images)
          /\ \A k \in 1..Len(images) :
                /\ (Terminal(images[k]) /\ Terminal(images'[k]))
                   => /\ images'[k].status = images[k].status
                      /\ images'[k].src = images[k].src
                      /\ images'[k].error = images[k].error
                /\ (Terminal(images[k]) /\ images'[k].status = "loading")
                   => ev'.op = "handleRegenerate"]_vars

\* C29: for every item a video result is present exactly when videoStatus
\* is success, and a video error exactly when videoStatus is error.
C29_VideoFieldsMatchStatus ==
    \A i \in 1..Len(images) :
        /\ images[i].videoSrc # NoVideo <=> images[i].videoStatus = "success"
        /\ images[i].videoError # None <=> images[i].videoStatus = "error"

\* C30: a submit is accepted only while no batch is in progress, so one
\* pipeline runs at a time: isLoading is true exactly while the batch plans,
\* generates or waits, and at most one of its gateway calls is in flight.
C30_OneBatchAtATime ==
    [][/\ ev'.op = "handleGenerate"
          => /\ ~isLoading
             /\ batch.pc \in {"idle", "done", "failed"}
             /\ batch.calls = {}
             /\ nBatch' = nBatch + 1
       /\ isLoading' <=> batch'.pc \in {"planning", "generating", "delay"}
       /\ Cardinality(batch'.calls) <= 1
       /\ batch'.pc = "planning" => batch'.calls = {}]_vars

C30_SecondBatchAfterFirst ==
    /\ nBatch = 2
    /\ isLoading
    /\ batch.pc = "generating"
    /\ batch.calls = {1}
    /\ nAppend = 1

\* C31: an item whose photo status is error can be retried on its own: a
\* regenerate request with another style is available for it (its card
\* offers the regenerate control), without a new batch.
C31_ErrorItemIsRetriable ==
    \A i \in 1..Len(images) :
        (images[i].status = "error" /\ Rendered /\ nUser < MaxUserActions)
        => \E s \in Styles \ {images[i].style} :
              ENABLED HandleRegenerate(images[i].id, s, images[i].prompt)

\* C32: a video request on an item whose photo status is not success is
\* reported as an error (an error message is set by the request); it is not
\* silently ignored.
C32_VideoOnUnreadyPhotoIsReported ==
    [][(ev'.op = "handleVideoAction" /\ ev'.b # "success")
       => error' # NoError]_vars

\* C38: a failed planning call changes no item the attempt did not create:
\* the items of a history entry opened while planning was in flight keep
\* their status and error.
C38_FailedPlanningKeepsForeignItems ==
    [][(ev'.op = "generatePoses" /\ ~ev'.ok)
       => \/ images' = <<>>
          \/ /\ Len(images') = Len(images)
             /\ \A k \in 1..Len(images) :
                   /\ images'[k].status = images[k].status
                   /\ images'[k].error = images[k].error]_vars

\* message of handleRegenerate when no batch parameters are stored
NoFormData == <<"Cannot regenerate. Original form data not found.">>

\* C39: a regenerate request made when no batch was started in the session
\* (no stored parameters; the items come from a history entry) sets the
\* error message, changes no item and makes no gateway call.
C39_RegenerateWithoutBatchIsRejected ==
    (ev.op = "handleRegenerate" /\ lastUsedFormState = NullForm)
    => /\ error = NoFormData
       /\ images = PriorEntry.images
       /\ regenCalls = EmptyBag
       /\ videoCalls = EmptyBag
       /\ batch = NoBatch

C39_RejectedOnHistoryItem ==
    /\ ev.op = "handleRegenerate"
    /\ lastUsedFormState = NullForm
    /\ ev.a # Clicked(images, ev).style
    /\ images = PriorEntry.images
    /\ error = NoFormData
    /\ regenCalls = EmptyBag

\* the continuations that deliver a result to an item, and the positions of
\* the list such a step is aimed at (by index for the batch, by id otherwise)
PhotoResultSteps == {"generateImage", "regeneratePhoto"}
VideoResultSteps ==
    {"videoOperation", "videoSleep", "videoFetch", "videoBlob", "videoRead",
     "videoReadFailed", "videoRejected"}
Targets(imgs, e) ==
    IF e.op = "generateImage" THEN {e.index} \cap (1..Len(imgs))
    ELSE {k \in 1..Len(imgs) : imgs[k].id = e.id}

\* C34: results for different items of one list do not interfere: a photo,
\* regeneration or video result changes only the item it is aimed at, keeps
\* the list's length and order, and on its own item a photo result keeps the
\* video fields and a video result keeps the photo fields, whatever other
\* calls are in flight.
C34_ResultsOfDistinctItemsIndependent ==
    [][ev'.op \in PhotoResultSteps \cup VideoResultSteps
       => /\ Len(images') = Len(images)
          /\ \A j \in 1..Len(images) :
                IF j \notin Targets(images, ev')
                THEN images'[j] = images[j]
                ELSE /\ images'[j].id = images[j].id
                     /\ images'[j].prompt = images[j].prompt
                     /\ images'[j].style = images[j].style
                     /\ ev'.op \in PhotoResultSteps
                        => /\ images'[j].videoStatus = images[j].videoStatus
                           /\ images'[j].videoSrc = images[j].videoSrc
                           /\ images'[j].videoError = images[j].videoError
                     /\ ev'.op \in VideoResultSteps
                        => /\ images'[j].status = images[j].status
                           /\ images'[j].src = images[j].src
                           /\ images'[j].error = images[j].error]_vars

C34_VideoResultDuringOtherRegeneration ==
    /\ ev.op = "videoRead"
    /\ Len(images) = 2
    /\ Clicked(images, ev).videoStatus = "success"
    /\ \E j \in 1..2 :
          /\ images[j].id # ev.id
          /\ images[j].status = "loading"
          /\ images[j].videoStatus = "idle"
          /\ RegenCallsOf(regenCalls, images[j].id) # {}

\* C37: every batch finishes: once isLoading is true it becomes false again,
\* on the path where all items were processed and on the paths where planning
\* failed or returned no pose, provided every gateway call returns and the
\* timer fires; isLoading is true all the time in between: it is cleared only
\* by the step that ends the batch and set only by a submit.
C37_BatchTerminates ==
    /\ isLoading ~> (~isLoading /\ batch.pc \in {"done", "failed"})
    /\ [][/\ (isLoading /\ ~isLoading') => batch'.pc \in {"done", "failed"}
          /\ (~isLoading /\ isLoading') => ev'.op = "handleGenerate"
          /\ batch'.pc \in {"planning", "generating", "delay"} => isLoading']_vars

C37_FinishedAfterLastItem ==
    /\ JustArchived
    /\ ev.a = "generateImage"
    /\ batch.pc = "done"
    /\ ~isLoading
    /\ ~prevIsLoading
    /\ batch.done = 1..Len(batch.poseTasks)
    /\ Len(batch.poseTasks) = MaxPoses

\* C33: a submit with an item count outside the bounds (below 1, above 10,
\* not a number) is refused before any remote call: the planning call is not
\* made and no item is created or removed.
C33_InvalidCountIsRefused ==
    [][(/\ ev'.op \in {"handleGenerate", "submitBlocked"}
        /\ ~CountInRange(formState.numberOfImages))
       => /\ batch'.pc # "planning"
          /\ UNCHANGED <<images, batch, nBatch>>]_vars

\* the prompts built for the synthesis calls in the state, each with the
\* parameters and the pose it was built for
PromptsBuilt ==
    {[fs |-> c.formState, pose |-> c.pose, text |-> c.text] :
        c \in BagToSet(regenCalls)}
    \cup (IF batch.started # <<>>
          THEN {[fs |-> batch.formState, pose |-> batch.poseTasks[batch.index],
                 text |-> batch.text]}
          ELSE {})

\* C35: the prompt for (parameters, pose) is the preamble, the description
\* clause only for a non-empty description, one of four reference clauses
\* selected by the presence of the product and model images, the pose
\* clause, the aspect-ratio clause and one style clause: the style's own
\* clause for the nine styles, the generic studio clause for another style;
\* nothing else, and equal inputs give equal text.
C35_PromptIsItsClausesInOrder ==
    /\ Cardinality({ReferenceClause(m, p) :
                        m \in {None, UploadedModel},
                        p \in {None, UploadedProduct}}) = 4
    /\ \A r \in PromptsBuilt :
          LET description ==
                  IF r.fs.productDescription = "" THEN ""
                  ELSE DescriptionClause(r.fs.productDescription)
              style ==
                  IF r.fs.style \in KnownStyles THEN StyleClause(r.fs.style)
                  ELSE GenericStyleClause(r.fs.style)
          IN  /\ r.text = Preamble \o description
                              \o ReferenceClause(r.fs.modelImage,
                                                 r.fs.productImage)
                              \o PoseClause(r.pose)
                              \o AspectClause(r.fs.aspectRatio) \o style
              /\ r.fs.style \in KnownStyles
                 => style # GenericStyleClause(r.fs.style)
              /\ \A q \in PromptsBuilt :
                    (q.fs = r.fs /\ q.pose = r.pose) => q.text = r.text

C35_UnknownStyleWithoutDescription ==
    /\ batch.pc = "generating"
    /\ batch.index = 2
    /\ batch.formState.style = UnknownStyle
    /\ batch.formState.productDescription = ""
    /\ batch.formState.productImage = UploadedProduct
    /\ batch.formState.modelImage = None
    /\ batch.text = Preamble
                     \o " Featuring a fashion model posing with the attached product."
                     \o PoseClause(PoseNames[2])
                     \o AspectClause(batch.formState.aspectRatio)
                     \o GenericStyleClause(UnknownStyle)
    /\ \E c \in BagToSet(regenCalls) : c.formState.style \in KnownStyles

\* C40: the description a describe call returns is written into the form only
\* if the product image it was computed from is still the form's product
\* image; a result for an image that was replaced or removed meanwhile
\* leaves the form as it is.
C40_LateDescriptionIsDropped ==
    [][(ev'.op = "generateDescription" /\ ev'.ok
        /\ formState.productImage # ev'.a)
       => formState' = formState]_vars

\* the calls a step adds to a bag of calls
NewCalls(before, after) ==
    {c \in BagToSet(after) : CopiesIn(c, after) > CopiesIn(c, before)}

\* C36: when there is no API key at the moment a batch is submitted or a
\* regeneration, a video or a description is requested, the request calls no
\* gateway; it ends in the operation's error outcome (the error message set,
\* the batch not loading and without items of its own, the item in error,
\* the video in error, the description not loading) and the key modal is
\* open.
C36_MissingKeyOpensPrompt ==
    [][/\ (~apiKey /\ ev'.op = "handleGenerate") => batch'.pc = "nokey"
       /\ (~apiKey /\ EffectiveRegenerate)
          => /\ NewCalls(regenCalls, regenCalls') # {}
             /\ \A c \in NewCalls(regenCalls, regenCalls') : ~c.sent
       /\ (~apiKey /\ ev'.op = "handleVideoAction")
          => \A c \in NewCalls(videoCalls, videoCalls') : c.stage = "nokey"
       /\ (~apiKey /\ ev'.op = "handleGenerateDescription")
          => /\ NewCalls(descCalls, descCalls') # {}
             /\ \A c \in NewCalls(descCalls, descCalls') : c.stage = "nokey"
       /\ (ev'.op = "generatePoses" /\ ev'.a = "nokey")
          => /\ isApiKeyModalOpen'
             /\ ~isLoading'
             /\ error' = <<"An unexpected error occurred", KeyMissing>>
             /\ batch'.started = <<>>
             /\ images' = <<>>
       /\ (ev'.op = "regeneratePhoto" /\ ~ev'.ok /\ ev'.a = KeyMissing)
          => /\ isApiKeyModalOpen'
             /\ error' = <<"Failed to regenerate image", KeyMissing>>
             /\ \A k \in 1..Len(images') :
                   images'[k].id = ev'.id
                   => /\ images'[k].status = "error"
                      /\ images'[k].error = KeyMissing
       /\ (ev'.op = "videoRejected" /\ ev'.a = "nokey")
          => /\ isApiKeyModalOpen'
             /\ error' = <<"Failed to generate video", KeyMissing>>
             /\ \A k \in 1..Len(images') :
                   images'[k].id = ev'.id
                   => /\ images'[k].videoStatus = "error"
                      /\ images'[k].videoError = KeyMissing
       /\ (ev'.op = "generateDescription" /\ ~ev'.ok /\ ev'.b = KeyMissing)
          => /\ isApiKeyModalOpen'
             /\ error' = <<"Failed to generate description", KeyMissing>>
             /\ ~isDescriptionLoading'
             /\ formState' = formState]_vars

C36_VideoRequestedAfterKeyRemoval ==
    /\ ev.op = "videoRejected"
    /\ ev.a = "nokey"
    /\ ~apiKey
    /\ batch.pc = "done"
    /\ isApiKeyModalOpen
    /\ Clicked(images, ev).videoStatus = "error"
    /\ Clicked(images, ev).videoError = KeyMissing
    /\ videoCalls = EmptyBag

====
